---- MODULE Spec2Model ----
(***************************************************************************)
(* Model of the multi-pass reasoning harness: the Scratchpad               *)
(* (backend/scratchpad.py) and the cycle controller                        *)
(* MultiPassHarnessLite.run (backend/harness_lite.py).                     *)
(*                                                                         *)
(* Numbers.  Confidence values are Python floats in the source.  Here they *)
(* are exact fixed-point integers: 1.0 is One = 600 units, so that 0.01 is *)
(* 6 units, the mean of three scores and the 50/50 blend at synthesis are  *)
(* exact.  Comparisons against 0.05, 0.4, 0.75 are exact rational          *)
(* comparisons.                                                            *)
(*                                                                         *)
(* Strings.  A string is modelled by a natural number (its identity);      *)
(* StrLen gives its length in characters.  A raw regex match r >= Padded   *)
(* is the string r % Padded surrounded by whitespace, so that strip() is   *)
(* not the identity.  String 0 is the empty string.                        *)
(*                                                                         *)
(* Timestamps (created, last_updated, KeyEvidence.timestamp), session_id   *)
(* and title are not modelled: no modelled decision reads them (the sort   *)
(* of _compress orders sections that are then truncated independently).    *)
(***************************************************************************)
EXTENDS Integers, Sequences, FiniteSets, TLC

VARIABLES
    scratchpad,          \* self.scratchpad: the Scratchpad record
    max_cycles,          \* self.max_cycles
    analysis_mode,       \* self.analysis_mode
    passes,              \* self.passes: the pass log (pass types)
    pc,                  \* position of run() (the next suspension point)
    cycle,               \* local `cycle` of run()
    cycle_insights,      \* local `cycle_insights` of run()
    critique,            \* local `critique` of run(): the last critique PassResult
    sweep,               \* locals of _run_branch_cycles: branches still to run
    termination_reason,  \* local `termination_reason` of run()
    result,              \* the HarnessResult returned by run()
    call                 \* the call a direct client made last or is in: op, arguments, locals, return

vars == <<scratchpad, max_cycles, analysis_mode, passes, pc, cycle,
          cycle_insights, critique, sweep, termination_reason, result, call>>

\* Python's None
None == "None"

----------------------------------------------------------------------------
\* Fixed-point numbers

One == 6 * 100
Pct(n) == 6 * n                  \* the float 0.nn  (n hundredths)

Min(a, b) == IF a <= b THEN a ELSE b
Max(a, b) == IF a >= b THEN a ELSE b
Abs(x) == IF x < 0 THEN -x ELSE x
Clamp01(x) == Max(0, Min(One, x))        \* max(0.0, min(1.0, x))

----------------------------------------------------------------------------
\* Sequences

Range(s) == {s[i] : i \in 1..Len(s)}
Contains(s, x) == \E i \in 1..Len(s) : s[i] = x       \* x in s
LastN(s, n) == IF Len(s) <= n THEN s ELSE SubSeq(s, Len(s) - n + 1, Len(s))   \* s[-n:]
FirstN(s, n) == IF Len(s) <= n THEN s ELSE SubSeq(s, 1, n)                    \* s[:n]

RECURSIVE SumSeq(_)
SumSeq(s) == IF s = <<>> THEN 0 ELSE Head(s) + SumSeq(Tail(s))

\* s is a subsequence of t: every element of s occurs in t, in the same order
RECURSIVE IsSubseq(_, _)
IsSubseq(s, t) ==
    IF s = <<>> THEN TRUE
    ELSE IF t = <<>> THEN FALSE
    ELSE IF Head(s) = Head(t) THEN IsSubseq(Tail(s), Tail(t))
    ELSE IsSubseq(s, Tail(t))

NoDuplicates(s) == \A i, j \in 1..Len(s) : s[i] = s[j] => i = j

----------------------------------------------------------------------------
\* Strings

Padded == 10 * 100
BigInsightCount == 11        \* how many long [INSIGHT] items the long expansion text holds
BigRiskCount == 6            \* how many long [RISK] items the long expansion text holds

BigInsights == 1..BigInsightCount
BigRisks == 21..(20 + BigRiskCount)

Prefixes == {20} \cup {100 + s : s \in BigInsights}

\* len(s) in characters
StrLen(s) ==
    IF s = 0 THEN 0
    ELSE IF s \in BigInsights THEN 3000
    ELSE IF s \in BigRisks THEN 6000
    ELSE IF s \in Prefixes THEN 100
    ELSE 40

\* s[:100]: the long [RISK] items start with the same 100 characters, the
\* long [INSIGHT] items with different ones
Prefix100(s) ==
    IF StrLen(s) <= 100 THEN s
    ELSE IF s \in BigRisks THEN 20
    ELSE 100 + s

\* str.strip()
strip(r) == r % Padded

\* s.upper() on marker tags (re.IGNORECASE matching)
upper(tag) ==
    CASE tag = "insight" -> "INSIGHT"
      [] tag = "branch" -> "BRANCH"
      [] tag = "too_granular" -> "TOO_GRANULAR"
      [] tag = "confirmation" -> "CONFIRMATION"
      [] OTHER -> tag

----------------------------------------------------------------------------
\* LLM output text: the bracketed markers in text order, each with the raw
\* content that follows it up to the next "[" or the end of the text, and
\* the numeric declaration lines in text order.

Tok(tag, raw) == [tag |-> tag, raw |-> raw]
Line(name, val) == [name |-> name, val |-> val]
Text(toks, decl) == [toks |-> toks, decl |-> decl]

EmptyText == Text(<<>>, <<>>)

\* re.findall(r'\[TAG\]([^\[]*?)(?=\[|$)', text, re.IGNORECASE | re.DOTALL)
FindAllI(tag, text) ==
    LET hits == SelectSeq(text.toks, LAMBDA t : upper(t.tag) = tag)
    IN  [i \in 1..Len(hits) |-> hits[i].raw]

\* re.findall(r'\[TAG\]([^\[]*?)(?=\[|$)', text, re.DOTALL): case-sensitive
FindAll(tag, text) ==
    LET hits == SelectSeq(text.toks, LAMBDA t : t.tag = tag)
    IN  [i \in 1..Len(hits) |-> hits[i].raw]

\* re.search(NAME + r':\s*(0\.\d+)', content): the value of the first matching line,
\* or NoMatch.
\* The pattern is unanchored, so 'CONFIDENCE:' also matches inside a
\* 'CONCLUSION_CONFIDENCE:' line.
NameMatches(pattern, name) ==
    \/ name = pattern
    \/ pattern = "CONFIDENCE" /\ name = "CONCLUSION_CONFIDENCE"

NoMatch == 0 - 1

\* faulty variant: the pattern takes any number, not only one written 0.ddd
Search_any_number(pattern, text) ==
    LET hits == SelectSeq(text.decl, LAMBDA l : NameMatches(pattern, l.name))
    IN  IF hits = <<>> THEN NoMatch ELSE hits[1].val

\* the group (0\.\d+) takes a number written 0.ddd only: a line with a negative
\* number or with 1.0 and above does not match
Search(pattern, text) ==
    LET hits == SelectSeq(text.decl, LAMBDA l :
                    NameMatches(pattern, l.name) /\ l.val >= 0 /\ l.val < One)
    IN  IF hits = <<>> THEN NoMatch ELSE hits[1].val

----------------------------------------------------------------------------
\* Marker tables of scratchpad.py, in dict order

SEMANTIC_MARKERS ==
    <<"INSIGHT", "EVIDENCE", "RISK", "COUNTER", "PATTERN", "QUESTION",
      "DECISION", "META", "BRANCH">>

FALLACY_MARKERS_ALWAYS ==
    <<"FALSE_DICHOTOMY", "SUNK_COST", "CONFIRMATION", "PLANNING_FALLACY",
      "CIRCULAR", "AUTHORITY">>

FALLACY_MARKERS_FORWARD_ONLY == <<"SURVIVORSHIP", "HINDSIGHT">>

EVIDENCE_QUALITY_MARKERS ==
    <<"UNVERIFIED", "INCOMPLETE", "CONTRADICTED", "UNSTABLE", "DATED">>

\* the sections in the dict order of __post_init__
SectionOrder ==
    <<"claims", "insights", "evidence", "risks", "counters", "questions",
      "patterns", "decisions", "meta", "branches">>

SectionTypes == Range(SectionOrder)

marker_to_section(marker) ==
    CASE marker = "INSIGHT" -> "insights"
      [] marker = "EVIDENCE" -> "evidence"
      [] marker = "RISK" -> "risks"
      [] marker = "COUNTER" -> "counters"
      [] marker = "PATTERN" -> "patterns"
      [] marker = "QUESTION" -> "questions"
      [] marker = "DECISION" -> "decisions"
      [] marker = "META" -> "meta"
      [] marker = "BRANCH" -> "branches"

----------------------------------------------------------------------------
\* Scratchpad: construction

MAX_TOKENS == 8000
MAX_BRANCHES == 3
BRANCH_CONFIDENCE_THRESHOLD == Pct(40)

\* Scratchpad.__post_init__: the default sections and their preserved flags
DefaultSections ==
    [s \in SectionTypes |->
        [type |-> s,
         content |-> <<>>,
         preserved |-> s \notin {"risks", "questions", "meta"}]]

\* ConfidenceModel(): the dataclass defaults
NewConfidenceModel ==
    [reasoning_quality |-> One,
     evidence_quality |-> One,
     conclusion_confidence |-> Pct(50),
     analysis_mode |-> "retrospective",
     fallacies_found |-> <<>>,
     evidence_gaps |-> <<>>,
     retrospective_insights |-> <<>>]

\* Scratchpad(session_id, title): the dataclass defaults
NewScratchpad ==
    [sections |-> DefaultSections,
     confidence_history |-> <<>>,
     current_confidence |-> Pct(50),
     cycle_count |-> 0,
     confidence_model |-> NewConfidenceModel,
     key_evidence |-> <<>>,
     insight_counts |-> <<>>,
     branches |-> <<>>,
     current_branch_id |-> None]

\* faulty variant: the composite is the conclusion confidence alone
composite_conclusion_only(cm) == cm.conclusion_confidence

\* ConfidenceModel.composite_confidence
composite_confidence(cm) ==
    (cm.reasoning_quality + cm.evidence_quality + cm.conclusion_confidence) \div 3

----------------------------------------------------------------------------
\* Scratchpad: token estimate and compression

\* len(' '.join(content))
JoinLen(content) ==
    IF content = <<>> THEN 0
    ELSE SumSeq([i \in 1..Len(content) |-> StrLen(content[i])]) + (Len(content) - 1)

\* Scratchpad.estimate_tokens
estimate_tokens(sections) ==
    SumSeq([i \in 1..Len(SectionOrder) |-> JoinLen(sections[SectionOrder[i]].content)]) \div 4

\* faulty variant: non-preserved sections keep their 5 oldest items
compress_tier1_oldest(sections) ==
    [s \in SectionTypes |->
        IF ~sections[s].preserved /\ Len(sections[s].content) > 5
        THEN [sections[s] EXCEPT !.content = FirstN(@, 5)]
        ELSE sections[s]]

\* _compress, first loop: non-preserved sections keep their 5 most recent items
compress_tier1(sections) ==
    [s \in SectionTypes |->
        IF ~sections[s].preserved /\ Len(sections[s].content) > 5
        THEN [sections[s] EXCEPT !.content = LastN(@, 5)]
        ELSE sections[s]]

\* _compress, second loop: preserved sections keep their 10 most recent items
compress_tier2(sections) ==
    [s \in SectionTypes |->
        IF sections[s].preserved /\ Len(sections[s].content) > 10
        THEN [sections[s] EXCEPT !.content = LastN(@, 10)]
        ELSE sections[s]]

\* faulty variant: compression also keeps only the most recent key-evidence item
compress_with_evidence(pad) ==
    LET t1 == compress_tier1(pad.sections)
    IN  [pad EXCEPT
            !.sections = IF estimate_tokens(t1) > MAX_TOKENS THEN compress_tier2(t1) ELSE t1,
            !.key_evidence = LastN(@, 1)]

\* Scratchpad._compress
compress(pad) ==
    LET t1 == compress_tier1(pad.sections)
    IN  [pad EXCEPT !.sections =
            IF estimate_tokens(t1) > MAX_TOKENS THEN compress_tier2(t1) ELSE t1]

----------------------------------------------------------------------------
\* Scratchpad: merging text

\* faulty variant: every stripped, non-empty match is appended, present or not
merge_matches_unchecked(content, matches) ==
    LET kept == SelectSeq(matches, LAMBDA r : strip(r) # 0)
    IN  [content |-> content \o [i \in 1..Len(kept) |-> strip(kept[i])], n |-> Len(kept)]

\* extract_and_merge, inner loop: append each stripped, non-empty match that
\* is not yet in the section; n counts the appended items
RECURSIVE merge_matches(_, _)
merge_matches(content, matches) ==
    IF matches = <<>> THEN [content |-> content, n |-> 0]
    ELSE LET c == strip(Head(matches))
             new == c # 0 /\ ~Contains(content, c)
             rest == merge_matches(IF new THEN Append(content, c) ELSE content,
                                   Tail(matches))
         IN  [content |-> rest.content, n |-> rest.n + (IF new THEN 1 ELSE 0)]

\* extract_and_merge, outer loop over SEMANTIC_MARKERS[k..]
RECURSIVE merge_markers(_, _, _)
merge_markers(sections, text, k) ==
    IF k > Len(SEMANTIC_MARKERS) THEN [sections |-> sections, n |-> 0]
    ELSE LET st == marker_to_section(SEMANTIC_MARKERS[k])
             m == merge_matches(sections[st].content, FindAllI(SEMANTIC_MARKERS[k], text))
             rest == merge_markers([sections EXCEPT ![st].content = m.content], text, k + 1)
         IN  [sections |-> rest.sections, n |-> m.n + rest.n]

\* faulty variant: the count is what the sections gained once compression is done
extract_and_merge_counting_late(pad, text) ==
    LET m == merge_markers(pad.sections, text, 1)
        merged == [pad EXCEPT !.sections = m.sections]
        after == IF estimate_tokens(m.sections) > MAX_TOKENS THEN compress(merged) ELSE merged
    IN  [pad |-> after,
         ret |-> SumSeq([i \in 1..Len(SectionOrder) |->
                            Len(after.sections[SectionOrder[i]].content)
                            - Len(pad.sections[SectionOrder[i]].content)])]

\* Scratchpad.extract_and_merge: the scratchpad afterwards and the returned count
extract_and_merge(pad, text) ==
    LET m == merge_markers(pad.sections, text, 1)
        merged == [pad EXCEPT !.sections = m.sections]
    IN  [pad |-> IF estimate_tokens(m.sections) > MAX_TOKENS THEN compress(merged) ELSE merged,
         ret |-> m.n]

\* snippet[:200]: snippets 71 and 72 are longer than 200 characters and differ
\* only after the first 200
Prefix200(s) == IF s = 72 THEN 71 ELSE s

\* the claim string f"@{id} [{type}]: {text}\n  Quote: \"{snippet[:200]}...\""
claim_str(claim) == 500 + 100 * claim.id + Prefix200(claim.snippet)

\* Scratchpad.add_claim
add_claim(pad, claim) ==
    IF Contains(pad.sections["claims"].content, claim_str(claim)) THEN pad
    ELSE [pad EXCEPT !.sections["claims"].content = Append(@, claim_str(claim))]

RECURSIVE add_claims(_, _)
add_claims(pad, claims) ==
    IF claims = <<>> THEN pad ELSE add_claims(add_claim(pad, Head(claims)), Tail(claims))

\* Scratchpad.add_key_evidence
add_key_evidence(pad, content, source, strength, direction) ==
    IF \E i \in 1..Len(pad.key_evidence) : pad.key_evidence[i].content = content
    THEN pad
    ELSE [pad EXCEPT !.key_evidence =
            Append(@, [content |-> content, source |-> source,
                       strength |-> strength, direction |-> direction])]

----------------------------------------------------------------------------
\* Confidence model

\* the issues f"{marker}: {match.strip()[:100]}" of the markers[k..], in
\* marker order and then text order
RECURSIVE issues_of(_, _, _)
issues_of(markers, text, k) ==
    IF k > Len(markers) THEN <<>>
    ELSE LET found == FindAll(markers[k], text)
         IN  [i \in 1..Len(found) |->
                 [marker |-> markers[k], text |-> Prefix100(strip(found[i]))]]
             \o issues_of(markers, text, k + 1)

\* `if issue not in lst: lst.append(issue)` for each issue in turn
RECURSIVE append_new(_, _)
append_new(lst, issues) ==
    IF issues = <<>> THEN lst
    ELSE append_new(IF Contains(lst, Head(issues)) THEN lst ELSE Append(lst, Head(issues)),
                    Tail(issues))

\* faulty variant: the forward-only markers are fallacies in both modes
cycle_fallacies_any_mode(mode, text) ==
    issues_of(FALLACY_MARKERS_ALWAYS, text, 1) \o issues_of(FALLACY_MARKERS_FORWARD_ONLY, text, 1)

\* the fallacies counted by update_from_critique for this pass (cycle_fallacies)
cycle_fallacies(mode, text) ==
    issues_of(FALLACY_MARKERS_ALWAYS, text, 1)
    \o (IF mode = "forward" THEN issues_of(FALLACY_MARKERS_FORWARD_ONLY, text, 1) ELSE <<>>)

\* the evidence gaps counted by update_from_critique for this pass
cycle_evidence_gaps(text) == issues_of(EVIDENCE_QUALITY_MARKERS, text, 1)

\* update_from_critique: the reasoning_quality rule
reasoning_update(q, n) ==
    IF n = 0 THEN Min(One, q + Pct(10))
    ELSE IF n <= 2 THEN Max(Pct(50), Pct(90) - n * Pct(15))
    ELSE Max(Pct(30), Pct(90) - n * Pct(15))

\* update_from_critique: the evidence_quality rule
evidence_update(q, n) ==
    IF n = 0 THEN Min(One, q + Pct(10))
    ELSE IF n <= 2 THEN Max(Pct(50), Pct(90) - n * Pct(15))
    ELSE Max(Pct(30), Pct(90) - n * Pct(15))

\* ConfidenceModel.update_from_critique
update_from_critique(cm, text) ==
    LET fallacies == cycle_fallacies(cm.analysis_mode, text)
        gaps == cycle_evidence_gaps(text)
        fwd == issues_of(FALLACY_MARKERS_FORWARD_ONLY, text, 1)
    IN  [cm EXCEPT
            !.fallacies_found = append_new(@, fallacies),
            !.retrospective_insights =
                IF cm.analysis_mode = "forward" THEN @ ELSE append_new(@, fwd),
            !.evidence_gaps = append_new(@, gaps),
            !.reasoning_quality = reasoning_update(@, Len(fallacies)),
            !.evidence_quality = evidence_update(@, Len(gaps))]

\* Scratchpad.update_confidence (the legacy single confidence)
update_confidence(pad, new_confidence) ==
    [pad EXCEPT
        !.confidence_history = Append(@, pad.current_confidence),
        !.current_confidence = Clamp01(new_confidence),
        !.confidence_model.conclusion_confidence = Clamp01(new_confidence)]

\* faulty variant: the update is not entered in confidence_history
update_confidence_from_critique_unlogged(pad, critique_text, conclusion_confidence) ==
    LET cm == [update_from_critique(pad.confidence_model, critique_text)
                  EXCEPT !.conclusion_confidence = Clamp01(conclusion_confidence)]
    IN  [pad EXCEPT
            !.confidence_model = cm,
            !.current_confidence = composite_confidence(cm)]

\* Scratchpad.update_confidence_from_critique
update_confidence_from_critique(pad, critique_text, conclusion_confidence) ==
    LET cm == [update_from_critique(pad.confidence_model, critique_text)
                  EXCEPT !.conclusion_confidence = Clamp01(conclusion_confidence)]
    IN  [pad EXCEPT
            !.confidence_history = Append(@, pad.current_confidence),
            !.confidence_model = cm,
            !.current_confidence = composite_confidence(cm)]

\* faulty variant: the counter steps down
increment_cycle_down(pad) == [pad EXCEPT !.cycle_count = @ - 1]

\* Scratchpad.increment_cycle
increment_cycle(pad) == [pad EXCEPT !.cycle_count = @ + 1]

\* faulty variant: a cycle without new items is not recorded
record_cycle_insights_nonzero(pad, count) ==
    IF count = 0 THEN pad ELSE [pad EXCEPT !.insight_counts = Append(@, count)]

\* Scratchpad.record_cycle_insights
record_cycle_insights(pad, count) == [pad EXCEPT !.insight_counts = Append(@, count)]

----------------------------------------------------------------------------
\* Branch management

BranchId(n) == "branch-" \o ToString(n)

\* faulty variant: the active branches, latest first
get_active_branches_reversed(pad) ==
    LET active == SelectSeq(pad.branches, LAMBDA b : b.is_active)
    IN  [i \in 1..Len(active) |-> active[Len(active) + 1 - i]]

\* Scratchpad.get_active_branches
get_active_branches(pad) == SelectSeq(pad.branches, LAMBDA b : b.is_active)

\* faulty variant: the queue of proposals is not looked at
should_branch_without_proposals(pad) ==
    /\ ~(pad.current_confidence >= BRANCH_CONFIDENCE_THRESHOLD)
    /\ ~(pad.cycle_count < 2)
    /\ ~(Len(get_active_branches(pad)) >= MAX_BRANCHES)

\* Scratchpad.should_branch
should_branch(pad) ==
    /\ ~(pad.current_confidence >= BRANCH_CONFIDENCE_THRESHOLD)
    /\ ~(pad.cycle_count < 2)
    /\ ~(Len(get_active_branches(pad)) >= MAX_BRANCHES)
    /\ pad.sections["branches"].content # <<>>

\* Scratchpad.create_branch(thesis) with parent_id left at its default None
create_branch(pad, thesis) ==
    [pad EXCEPT !.branches =
        Append(@, [id |-> BranchId(Len(pad.branches) + 1),
                   thesis |-> thesis,
                   confidence |-> pad.current_confidence,
                   parent_id |-> pad.current_branch_id,
                   created_cycle |-> pad.cycle_count,
                   is_active |-> TRUE])]

\* Scratchpad.update_branch_confidence
update_branch_confidence(pad, branch_id, confidence) ==
    [pad EXCEPT !.branches =
        [i \in 1..Len(@) |->
            IF @[i].id = branch_id THEN [@[i] EXCEPT !.confidence = Clamp01(confidence)]
            ELSE @[i]]]

\* Scratchpad.deactivate_branch
deactivate_branch(pad, branch_id) ==
    [pad EXCEPT !.branches =
        [i \in 1..Len(@) |->
            IF @[i].id = branch_id THEN [@[i] EXCEPT !.is_active = FALSE] ELSE @[i]]]

\* faulty variant: the first active branch wins
get_winning_branch_first(pad) ==
    LET active == get_active_branches(pad)
    IN  IF active = <<>> THEN None ELSE active[1]

\* Scratchpad.get_winning_branch: max(active, key=confidence) returns the
\* first branch of greatest confidence; None without active branches
get_winning_branch(pad) ==
    LET active == get_active_branches(pad)
    IN  IF active = <<>> THEN None
        ELSE LET i == CHOOSE i \in 1..Len(active) :
                        /\ \A j \in 1..Len(active) : active[j].confidence <= active[i].confidence
                        /\ \A j \in 1..(i - 1) : active[j].confidence < active[i].confidence
             IN  active[i]

\* Scratchpad.extract_branch_proposals
extract_branch_proposals(pad) == pad.sections["branches"].content

\* Scratchpad.clear_branch_proposals
clear_branch_proposals(pad) == [pad EXCEPT !.sections["branches"].content = <<>>]

----------------------------------------------------------------------------
\* Termination detector

\* history = [*confidence_history, current_confidence]
trajectory(pad) == Append(pad.confidence_history, pad.current_confidence)

\* check_termination: the hard limit
max_cycles_reached(pad, mc) == pad.cycle_count >= mc

\* faulty variant: one small step is enough
confidence_saturated_last_delta(pad) ==
    LET history == trajectory(pad)
    IN  /\ Len(history) >= 3
        /\ LET recent == LastN(history, 3)
           IN  Abs(recent[3] - recent[2]) < Pct(5)

\* check_termination: SATURATION
confidence_saturated(pad) ==
    LET history == trajectory(pad)
    IN  /\ Len(history) >= 3
        /\ LET recent == LastN(history, 3)
               delta1 == Abs(recent[2] - recent[1])
               delta2 == Abs(recent[3] - recent[2])
           IN  delta1 < Pct(5) /\ delta2 < Pct(5)

\* faulty variant: fires only below a quarter of the previous rate
diminishing_returns_at_quarter(pad) ==
    /\ Len(pad.insight_counts) >= 2
    /\ LET recent_rate == pad.insight_counts[Len(pad.insight_counts)]
           prev_rate == pad.insight_counts[Len(pad.insight_counts) - 1]
       IN  prev_rate > 0 /\ 4 * recent_rate < prev_rate

\* faulty variant: fires at exactly half the previous rate as well
diminishing_returns_at_half(pad) ==
    /\ Len(pad.insight_counts) >= 2
    /\ LET recent_rate == pad.insight_counts[Len(pad.insight_counts)]
           prev_rate == pad.insight_counts[Len(pad.insight_counts) - 1]
       IN  prev_rate > 0 /\ 2 * recent_rate <= prev_rate

\* check_termination: DIMINISHING RETURNS (recent_rate < prev_rate * 0.5)
diminishing_returns(pad) ==
    /\ Len(pad.insight_counts) >= 2
    /\ LET recent_rate == pad.insight_counts[Len(pad.insight_counts)]
           prev_rate == pad.insight_counts[Len(pad.insight_counts) - 1]
       IN  prev_rate > 0 /\ 2 * recent_rate < prev_rate

\* check_termination: HIGH CONFIDENCE STABLE
high_confidence_stable(pad) ==
    /\ pad.current_confidence >= Pct(75)
    /\ Len(pad.sections["questions"].content) < 2

\* faulty variant: the trend criteria are tried after the first cycle already
check_termination_without_minimum(pad, mc) ==
    IF max_cycles_reached(pad, mc) THEN "max_cycles_reached (" \o ToString(mc) \o ")"
    ELSE IF confidence_saturated(pad) THEN "confidence_saturated"
    ELSE IF diminishing_returns(pad) THEN "diminishing_returns"
    ELSE IF high_confidence_stable(pad) THEN "high_confidence_stable"
    ELSE None

\* faulty variant: HIGH CONFIDENCE STABLE is tried before DIMINISHING RETURNS
check_termination_stable_first(pad, mc) ==
    IF max_cycles_reached(pad, mc) THEN "max_cycles_reached (" \o ToString(mc) \o ")"
    ELSE IF pad.cycle_count < 2 THEN None
    ELSE IF confidence_saturated(pad) THEN "confidence_saturated"
    ELSE IF high_confidence_stable(pad) THEN "high_confidence_stable"
    ELSE IF diminishing_returns(pad) THEN "diminishing_returns"
    ELSE None

\* Scratchpad.check_termination(max_cycles)
check_termination(pad, mc) ==
    IF max_cycles_reached(pad, mc) THEN "max_cycles_reached (" \o ToString(mc) \o ")"
    ELSE IF pad.cycle_count < 2 THEN None
    ELSE IF confidence_saturated(pad) THEN "confidence_saturated"
    ELSE IF diminishing_returns(pad) THEN "diminishing_returns"
    ELSE IF high_confidence_stable(pad) THEN "high_confidence_stable"
    ELSE None

----------------------------------------------------------------------------
\* Serialization

\* d.get(key, default)
Get(d, key, default) == IF key \in DOMAIN d THEN d[key] ELSE default

\* Scratchpad.to_dict (with KeyEvidence.to_dict, ThesisBranch.to_dict,
\* ConfidenceModel.to_dict)
to_dict(pad) ==
    [sections |->
        [k \in DOMAIN pad.sections |->
            [type |-> pad.sections[k].type,
             content |-> pad.sections[k].content,
             preserved |-> pad.sections[k].preserved]],
     key_evidence |->
        [i \in 1..Len(pad.key_evidence) |->
            [content |-> pad.key_evidence[i].content,
             source |-> pad.key_evidence[i].source,
             strength |-> pad.key_evidence[i].strength,
             direction |-> pad.key_evidence[i].direction]],
     insight_counts |-> pad.insight_counts,
     branches |->
        [i \in 1..Len(pad.branches) |->
            [id |-> pad.branches[i].id,
             thesis |-> pad.branches[i].thesis,
             confidence |-> pad.branches[i].confidence,
             parent_id |-> pad.branches[i].parent_id,
             created_cycle |-> pad.branches[i].created_cycle,
             is_active |-> pad.branches[i].is_active]],
     current_branch_id |-> pad.current_branch_id,
     confidence_history |-> pad.confidence_history,
     current_confidence |-> pad.current_confidence,
     confidence_model |->
        [reasoning_quality |-> pad.confidence_model.reasoning_quality,
         evidence_quality |-> pad.confidence_model.evidence_quality,
         conclusion_confidence |-> pad.confidence_model.conclusion_confidence,
         analysis_mode |-> pad.confidence_model.analysis_mode,
         fallacies_found |-> pad.confidence_model.fallacies_found,
         evidence_gaps |-> pad.confidence_model.evidence_gaps,
         retrospective_insights |-> pad.confidence_model.retrospective_insights],
     cycle_count |-> pad.cycle_count]

\* ConfidenceModel.from_dict
confidence_model_from_dict(d) ==
    [reasoning_quality |-> Get(d, "reasoning_quality", One),
     evidence_quality |-> Get(d, "evidence_quality", One),
     conclusion_confidence |-> Get(d, "conclusion_confidence", Pct(50)),
     analysis_mode |-> Get(d, "analysis_mode", "retrospective"),
     fallacies_found |-> Get(d, "fallacies_found", <<>>),
     evidence_gaps |-> Get(d, "evidence_gaps", <<>>),
     retrospective_insights |-> Get(d, "retrospective_insights", <<>>)]

\* faulty variant: current_branch_id is not restored
from_dict_without_branch_id(data) ==
    [sections |-> data.sections,
     confidence_history |-> data.confidence_history,
     current_confidence |-> data.current_confidence,
     cycle_count |-> data.cycle_count,
     confidence_model |-> confidence_model_from_dict(data.confidence_model),
     key_evidence |-> data.key_evidence,
     insight_counts |-> data.insight_counts,
     branches |-> data.branches,
     current_branch_id |-> None]

\* Scratchpad.from_dict
from_dict(data) ==
    LET constructed ==
            [NewScratchpad EXCEPT
                !.confidence_history = data.confidence_history,
                !.current_confidence = data.current_confidence,
                !.cycle_count = data.cycle_count]
    IN  [constructed EXCEPT
            !.sections =
                [k \in DOMAIN data.sections |->
                    [type |-> data.sections[k].type,
                     content |-> data.sections[k].content,
                     preserved |-> data.sections[k].preserved]],
            !.key_evidence =
                LET ke == Get(data, "key_evidence", <<>>)
                IN  [i \in 1..Len(ke) |->
                        [content |-> ke[i].content, source |-> ke[i].source,
                         strength |-> ke[i].strength, direction |-> ke[i].direction]],
            !.insight_counts = Get(data, "insight_counts", <<>>),
            !.branches =
                LET bs == Get(data, "branches", <<>>)
                IN  [i \in 1..Len(bs) |->
                        [id |-> bs[i].id, thesis |-> bs[i].thesis,
                         confidence |-> bs[i].confidence, parent_id |-> bs[i].parent_id,
                         created_cycle |-> bs[i].created_cycle,
                         is_active |-> bs[i].is_active]],
            !.current_branch_id = Get(data, "current_branch_id", None),
            !.confidence_model =
                IF "confidence_model" \in DOMAIN data
                THEN confidence_model_from_dict(data.confidence_model)
                ELSE @]

----------------------------------------------------------------------------
\* Oracle outputs: the texts the LLM may return to each kind of pass

MaxCycles == 3               \* max_cycles ranges over -1..MaxCycles

Claim(id, snippet) == [id |-> id, snippet |-> snippet]

\* the `claims` argument of run(): claim 1 is given twice, with snippets that
\* agree on their first 200 characters
ClaimLists == {<<Claim(1, 71), Claim(2, 73), Claim(1, 72)>>}

RECURSIVE Toks(_, _)
Toks(tag, raws) ==
    IF raws = <<>> THEN <<>> ELSE <<Tok(tag, Head(raws))>> \o Toks(tag, Tail(raws))

Triple(r, e, c) ==
    <<Line("REASONING_QUALITY", Pct(r)), Line("EVIDENCE_QUALITY", Pct(e)),
      Line("CONCLUSION_CONFIDENCE", Pct(c))>>

\* five new items the first time (one repeated with other case and padding,
\* one empty)
SmallText ==
    Text(<<Tok("INSIGHT", 31), Tok("insight", Padded + 31), Tok("EVIDENCE", 32),
           Tok("QUESTION", 33), Tok("QUESTION", 34), Tok("COUNTER", 35),
           Tok("INSIGHT", 0)>>, <<>>)

\* two new items
MoreText == Text(<<Tok("INSIGHT", 36), Tok("RISK", 37)>>, <<>>)

\* enough long items to exceed MAX_TOKENS
LongText ==
    Text(Toks("INSIGHT", [i \in 1..BigInsightCount |-> i])
         \o Toks("RISK", [i \in 1..BigRiskCount |-> 20 + i]), <<>>)

\* restates items of SmallText
RestateText == Text(<<Tok("INSIGHT", 31), Tok("EVIDENCE", 32)>>, <<>>)

ExpansionTexts == {EmptyText, SmallText, LongText}
CompressionTexts == {RestateText}
TargetedTexts == {MoreText}

CritiqueTexts ==
    { \* clean, three-part, high
      Text(<<>>, Triple(90, 90, 75)),
      \* one fallacy, one evidence gap (scenario S1, cycle 1)
      Text(<<Tok("CONFIRMATION", 61), Tok("UNVERIFIED", 62)>>, Triple(60, 60, 55)),
      \* legacy single confidence
      Text(<<>>, <<Line("CONFIDENCE", Pct(60))>>),
      \* no declaration at all, a mode-dependent marker
      Text(<<Tok("HINDSIGHT", 63)>>, <<>>),
      \* an incomplete three-part declaration
      Text(<<>>, <<Line("REASONING_QUALITY", Pct(70)), Line("CONCLUSION_CONFIDENCE", Pct(80))>>),
      \* major flaws (score 5), four branch proposals, low confidence
      Text(<<Tok("TOO_GRANULAR", 64), Tok("too_granular", 64), Tok("REFRAME", 65)>>
           \o Toks("BRANCH", <<41, 42, 43, 44>>), Triple(20, 20, 20)),
      \* three fallacies, two branch proposals, low confidence
      Text(Toks("CIRCULAR", <<66, 67, 21>>) \o Toks("BRANCH", <<45, 41>>), Triple(30, 30, 10)) }

BranchCritiqueTexts ==
    {EmptyText,
     Text(<<>>, <<Line("CONFIDENCE", Pct(70))>>),
     Text(<<>>, <<Line("CONFIDENCE", Pct(40))>>)}

----------------------------------------------------------------------------
\* Pass runner (harness_lite.py)

PassResult(pass_type, content, confidence, insights_found, major_flaws_found) ==
    [pass_type |-> pass_type, content |-> content, confidence |-> confidence,
     insights_found |-> insights_found, major_flaws_found |-> major_flaws_found]

NoPass == PassResult("none", EmptyText, 0, 0, 0)

\* len(re.findall(r'\[TAG\]', content, re.IGNORECASE))
CountI(tag, text) == Len(FindAllI(tag, text))

\* faulty variant: every dialectical marker counts once
major_flaws_unweighted(text) ==
    CountI("TOO_GRANULAR", text) + CountI("TENSION_MISSING", text)
    + CountI("TENSION_WRONG", text) + CountI("REFRAME", text) + CountI("ELEVATE", text)

\* _run_critique: the weighted count of dialectical issues
major_flaws(text) ==
    CountI("TOO_GRANULAR", text) * 2 + CountI("TENSION_MISSING", text) * 2
    + CountI("TENSION_WRONG", text) + CountI("REFRAME", text) + CountI("ELEVATE", text)

\* _run_critique: `reasoning_match and evidence_match and conclusion_match`
three_part(text) ==
    /\ Search("REASONING_QUALITY", text) # NoMatch
    /\ Search("EVIDENCE_QUALITY", text) # NoMatch
    /\ Search("CONCLUSION_CONFIDENCE", text) # NoMatch

\* _run_critique: the confidence update that follows extract_and_merge
critique_confidence(pad, text) ==
    IF three_part(text)
    THEN update_confidence_from_critique(
             [pad EXCEPT
                 !.confidence_model.reasoning_quality = Search("REASONING_QUALITY", text),
                 !.confidence_model.evidence_quality = Search("EVIDENCE_QUALITY", text)],
             text, Search("CONCLUSION_CONFIDENCE", text))
    ELSE IF Search("CONFIDENCE", text) # NoMatch
    THEN update_confidence(pad, Search("CONFIDENCE", text))
    ELSE pad

\* _run_critique: the scratchpad afterwards and the PassResult
run_critique(pad, text) ==
    LET m == extract_and_merge(pad, text)
        after == critique_confidence(m.pad, text)
    IN  [pad |-> after,
         ret |-> PassResult("critique", text, after.current_confidence, m.ret,
                            major_flaws(text))]

\* run(): the re-expansion condition
re_expansion_triggered(c, cyc, mc) == c.major_flaws_found >= 3 /\ cyc < mc

\* faulty variant: the branches already active are not subtracted
branch_capacity_ignoring_active(pad) == MAX_BRANCHES

\* run(): how many proposals become branches
\* (branch_proposals[:MAX_BRANCHES - len(get_active_branches())])
branch_capacity(pad) == MAX_BRANCHES - Len(get_active_branches(pad))

RECURSIVE create_branches(_, _)
create_branches(pad, proposals) ==
    IF proposals = <<>> THEN pad
    ELSE create_branches(create_branch(pad, Head(proposals)), Tail(proposals))

\* faulty variant: the latest proposals are taken when there are too many
start_branching_latest(pad) ==
    LET proposals == extract_branch_proposals(pad)
        stop == branch_capacity(pad)
        chosen == LastN(proposals, IF stop >= 0 THEN stop ELSE Max(0, Len(proposals) + stop))
    IN  clear_branch_proposals(create_branches(pad, chosen))

\* run(): the branching block up to the call of _run_branch_cycles
start_branching(pad) ==
    LET proposals == extract_branch_proposals(pad)
        stop == branch_capacity(pad)
        \* proposals[:stop], a negative stop counting from the end
        chosen == FirstN(proposals, IF stop >= 0 THEN stop ELSE Max(0, Len(proposals) + stop))
    IN  clear_branch_proposals(create_branches(pad, chosen))

\* _run_branch_cycles: `branch.confidence = float(...)` on the branch object
set_branch_confidence(pad, branch_id, confidence) ==
    [pad EXCEPT !.branches =
        [i \in 1..Len(@) |->
            IF @[i].id = branch_id THEN [@[i] EXCEPT !.confidence = confidence] ELSE @[i]]]

\* _run_synthesis: the blend with the winning branch
synthesis_confidence(pad) ==
    IF get_active_branches(pad) = <<>> THEN pad.current_confidence
    ELSE (pad.current_confidence + get_winning_branch(pad).confidence) \div 2

NoCall == [op |-> "none", arg |-> 0, ret |-> 0, n |-> 0]

NoResult ==
    [final_confidence |-> 0, confidence_trajectory |-> <<>>, termination_reason |-> None,
     passes |-> <<>>]

\* _run_expansion, lines 294-303: the router's context, when there is a result
thesis_context(router_result) ==
    IF router_result # None THEN <<"thesis_context">> ELSE <<>>

\* the system prompt of each _run_* pass: the values it interpolates, in order
system_prompt(pass_type, cyc, router_result) ==
    CASE pass_type = "expansion" ->
             <<"cycle">> \o thesis_context(router_result) \o <<"scratchpad">>
      [] pass_type = "compression" -> <<"cycle", "scratchpad">>
      [] pass_type = "targeted_expansion" -> <<"cycle", "scratchpad", "flaws_summary">>
      [] pass_type = "critique" -> <<"cycle", "scratchpad", "mode_guidance">>
      [] pass_type = "branch_expansion" -> <<"cycle", "branch", "scratchpad">>
      [] pass_type = "branch_critique" -> <<"cycle", "branch", "scratchpad">>
      [] pass_type = "synthesis" -> <<"scratchpad", "trajectory", "branch_context">>

\* run(), line 169: self.router_result is a RouterResult from the start of the
\* session on (here that of an empty library), and nothing assigns it again
SessionRouterResult == "RouterResult"

\* the oracle call of a pass: `await self._call_claude(system, user, ...)`
OracleCall(pass_type, cyc) ==
    [NoCall EXCEPT
        !.op = "_call_claude",
        !.arg = [pass_type |-> pass_type, cycle |-> cyc,
                 system |-> system_prompt(pass_type, cyc, SessionRouterResult)]]

----------------------------------------------------------------------------
\* The session: MultiPassHarnessLite(max_cycles, analysis_mode).run(title, claims)

Init ==
    /\ scratchpad = NewScratchpad
    /\ max_cycles \in -1..MaxCycles
    /\ analysis_mode \in {"forward", "retrospective"}
    /\ passes = <<>>
    /\ pc = "init"
    /\ cycle = 0
    /\ cycle_insights = 0
    /\ critique = NoPass
    /\ sweep = <<>>
    /\ termination_reason = None
    /\ result = NoResult
    /\ call = NoCall

\* run(), lines 151-181: set the mode, seed the claims
RunInit ==
    /\ pc = "init"
    /\ \E claims \in ClaimLists :
        scratchpad' = add_claims(
            [scratchpad EXCEPT !.confidence_model.analysis_mode = analysis_mode], claims)
    /\ passes' = <<>>
    /\ termination_reason' = None
    /\ pc' = "cycle_start"
    /\ UNCHANGED <<max_cycles, analysis_mode, cycle, cycle_insights, critique, sweep,
                   result, call>>

\* run(), lines 185-188: the head of the loop
CycleStart ==
    /\ pc = "cycle_start"
    /\ scratchpad' = increment_cycle(scratchpad)
    /\ cycle' = scratchpad'.cycle_count
    /\ cycle_insights' = 0
    /\ pc' = "expansion"
    /\ UNCHANGED <<max_cycles, analysis_mode, passes, critique, sweep,
                   termination_reason, result, call>>

\* a pass that only merges the oracle's text: _run_expansion, _run_compression,
\* _run_targeted_expansion and the bookkeeping of run() after it
MergePass(texts, pass_type, next) ==
    /\ \E text \in texts :
        LET m == extract_and_merge(scratchpad, text)
        IN  /\ scratchpad' = m.pad
            /\ cycle_insights' = cycle_insights + m.ret
    /\ passes' = Append(passes, pass_type)
    /\ call' = OracleCall(pass_type, cycle)
    /\ pc' = next
    /\ UNCHANGED <<max_cycles, analysis_mode, cycle, critique, sweep,
                   termination_reason, result>>

\* run(), lines 191-195
Expansion ==
    /\ pc = "expansion"
    /\ MergePass(ExpansionTexts, "expansion", "compression")

\* run(), lines 198-202
Compression ==
    /\ pc = "compression"
    /\ MergePass(CompressionTexts, "compression", "critique")

\* _run_critique on one of the oracle's texts and the bookkeeping of run()
\* after it, with the re-expansion condition
CritiquePass(texts) ==
    /\ \E text \in texts :
        LET r == run_critique(scratchpad, text)
        IN  /\ scratchpad' = r.pad
            /\ critique' = r.ret
            /\ cycle_insights' = cycle_insights + r.ret.insights_found
            /\ pc' = IF re_expansion_triggered(r.ret, cycle, max_cycles)
                     THEN "re_expansion" ELSE "record"
    /\ passes' = Append(passes, "critique")
    /\ call' = OracleCall("critique", cycle)
    /\ UNCHANGED <<max_cycles, analysis_mode, cycle, sweep, termination_reason,
                   result>>

\* run(), lines 205-218
Critique ==
    /\ pc = "critique"
    /\ CritiquePass(CritiqueTexts)

\* run(), lines 219-226
TargetedExpansion ==
    /\ pc = "re_expansion"
    /\ MergePass(TargetedTexts, "targeted_expansion", "re_compression")

\* faulty variant: the critique is run again after the re-compression
ReCompressionThenCritique ==
    /\ pc = "re_compression"
    /\ MergePass(CompressionTexts, "compression", "critique")

\* run(), lines 229-232
ReCompression ==
    /\ pc = "re_compression"
    /\ MergePass(CompressionTexts, "compression", "record")

\* faulty variant: the branches of earlier cycles are swept in every cycle
RecordAndSweep ==
    /\ pc = "record"
    /\ LET recorded == record_cycle_insights(scratchpad, cycle_insights)
           branched == IF should_branch(recorded) THEN start_branching(recorded) ELSE recorded
           active == get_active_branches(branched)
           ids == [i \in 1..Len(active) |-> active[i].id]
       IN  /\ sweep' = ids
           /\ scratchpad' =
                [branched EXCEPT !.current_branch_id =
                    IF ids = <<>> THEN None ELSE ids[1]]
           /\ pc' = IF ids = <<>> THEN "term_check" ELSE "branch_expansion"
    /\ UNCHANGED <<max_cycles, analysis_mode, passes, cycle, cycle_insights, critique,
                   termination_reason, result, call>>

\* run(), lines 236-256: record the cycle's insights, then the branch check;
\* when it triggers, create the branches and enter _run_branch_cycles
RecordAndBranch ==
    /\ pc = "record"
    /\ LET recorded == record_cycle_insights(scratchpad, cycle_insights)
       IN  IF should_branch(recorded)
           THEN LET branched == start_branching(recorded)
                    active == get_active_branches(branched)
                    ids == [i \in 1..Len(active) |-> active[i].id]
                IN  /\ sweep' = ids
                    /\ scratchpad' =
                         [branched EXCEPT !.current_branch_id =
                             IF ids = <<>> THEN None ELSE ids[1]]
                    /\ pc' = IF ids = <<>> THEN "term_check" ELSE "branch_expansion"
           ELSE /\ scratchpad' = recorded
                /\ sweep' = <<>>
                /\ pc' = "term_check"
    /\ UNCHANGED <<max_cycles, analysis_mode, passes, cycle, cycle_insights, critique,
                   termination_reason, result, call>>

\* a branch pass that only merges the oracle's text: its insights are not
\* added to cycle_insights
BranchMergePass(texts, pass_type, next) ==
    /\ \E text \in texts : scratchpad' = extract_and_merge(scratchpad, text).pad
    /\ passes' = Append(passes, pass_type)
    /\ call' = OracleCall(pass_type, cycle)
    /\ pc' = next
    /\ UNCHANGED <<max_cycles, analysis_mode, cycle, cycle_insights, critique, sweep,
                   termination_reason, result>>

\* _run_branch_cycles, lines 591-596
BranchExpansion ==
    /\ pc = "branch_expansion"
    /\ BranchMergePass(TargetedTexts, "branch_expansion", "branch_compression")

\* _run_branch_cycles, lines 599-600
BranchCompression ==
    /\ pc = "branch_compression"
    /\ BranchMergePass(CompressionTexts, "compression", "branch_critique")

\* _run_branch_cycles, lines 603-623: the branch critique, the branch's new
\* confidence, and the step to the next branch or out of the sweep
BranchCritique ==
    /\ pc = "branch_critique"
    /\ \E text \in BranchCritiqueTexts :
        LET m == extract_and_merge(scratchpad, text)
            found == Search("CONFIDENCE", text)
            updated == IF found # NoMatch
                       THEN set_branch_confidence(m.pad, Head(sweep), found)
                       ELSE m.pad
        IN  scratchpad' =
                [updated EXCEPT !.current_branch_id =
                    IF Tail(sweep) = <<>> THEN None ELSE Tail(sweep)[1]]
    /\ sweep' = Tail(sweep)
    /\ passes' = Append(passes, "branch_critique")
    /\ call' = OracleCall("branch_critique", cycle)
    /\ pc' = IF Tail(sweep) = <<>> THEN "term_check" ELSE "branch_expansion"
    /\ UNCHANGED <<max_cycles, analysis_mode, cycle, cycle_insights, critique,
                   termination_reason, result>>

\* faulty variant: synthesis follows the check whatever it returned
TermCheckThenSynthesis ==
    /\ pc = "term_check"
    /\ termination_reason' = check_termination(scratchpad, max_cycles)
    /\ pc' = "synthesis"
    /\ UNCHANGED <<scratchpad, max_cycles, analysis_mode, passes, cycle, cycle_insights,
                   critique, sweep, result, call>>

\* run(), lines 260-263
TermCheck ==
    /\ pc = "term_check"
    /\ termination_reason' = check_termination(scratchpad, max_cycles)
    /\ pc' = IF termination_reason' # None THEN "synthesis" ELSE "cycle_start"
    /\ UNCHANGED <<scratchpad, max_cycles, analysis_mode, passes, cycle, cycle_insights,
                   critique, sweep, result, call>>

\* run(), lines 266-288, with _run_synthesis
Synthesis ==
    /\ pc = "synthesis"
    /\ scratchpad' = [scratchpad EXCEPT !.current_confidence = synthesis_confidence(scratchpad)]
    /\ passes' = Append(passes, "synthesis")
    /\ result' =
         [final_confidence |-> scratchpad'.current_confidence,
          confidence_trajectory |-> trajectory(scratchpad'),
          termination_reason |->
              IF termination_reason = None THEN "synthesis_complete" ELSE termination_reason,
          passes |-> passes']
    /\ call' = OracleCall("synthesis", cycle)
    /\ pc' = "done"
    /\ UNCHANGED <<max_cycles, analysis_mode, cycle, cycle_insights, critique, sweep,
                   termination_reason>>

Next ==
    \/ RunInit
    \/ CycleStart
    \/ Expansion
    \/ Compression
    \/ Critique
    \/ TargetedExpansion
    \/ ReCompression
    \/ RecordAndBranch
    \/ BranchExpansion
    \/ BranchCompression
    \/ BranchCritique
    \/ TermCheck
    \/ Synthesis

Spec == Init /\ [][Next]_vars

----------------------------------------------------------------------------
\* A direct client of the Scratchpad: any sequence of at most MaxCalls calls of
\* its methods (and of the field assignment harness_lite.py makes) on a fresh
\* Scratchpad.  call records the last call: method, argument, returned value,
\* and how many calls were made.

MaxCalls == 5

Evidence(content, source, strength, direction) ==
    [content |-> content, source |-> source, strength |-> strength, direction |-> direction]

\* arguments of add_key_evidence: the second repeats the content of the first
KeyEvidenceInputs ==
    {Evidence(81, "CLAIM-1", Pct(70), "supports"),
     Evidence(81, "expansion_pass_2", Pct(90), "challenges"),
     Evidence(82, "CLAIM-2", Pct(50), "neutral")}

ProposalText == Text(Toks("BRANCH", <<41, 42>>) \o <<Tok("branch", Padded + 41)>>, <<>>)

S1Critique == Text(<<Tok("CONFIRMATION", 61), Tok("UNVERIFIED", 62)>>, Triple(60, 60, 55))

ApiTexts == {SmallText, LongText, ProposalText}

Called(op, arg, ret) == call' = [op |-> op, arg |-> arg, ret |-> ret, n |-> call.n + 1]

SessionVars ==
    <<max_cycles, analysis_mode, passes, pc, cycle, cycle_insights, critique, sweep,
      termination_reason, result>>

InitPad ==
    /\ scratchpad = NewScratchpad
    /\ max_cycles = 0
    /\ analysis_mode = "retrospective"
    /\ passes = <<>>
    /\ pc = "client"
    /\ cycle = 0
    /\ cycle_insights = 0
    /\ critique = NoPass
    /\ sweep = <<>>
    /\ termination_reason = None
    /\ result = NoResult
    /\ call = NoCall

ApiAddClaim ==
    /\ call.n < MaxCalls
    /\ \E claim \in {Claim(1, 71), Claim(1, 72)} :
        /\ scratchpad' = add_claim(scratchpad, claim)
        /\ Called("add_claim", claim_str(claim), 0)
    /\ UNCHANGED SessionVars

ApiAddKeyEvidence ==
    /\ call.n < MaxCalls
    /\ \E e \in KeyEvidenceInputs :
        /\ scratchpad' = add_key_evidence(scratchpad, e.content, e.source, e.strength,
                                          e.direction)
        /\ Called("add_key_evidence", e.content, 0)
    /\ UNCHANGED SessionVars

ApiExtractAndMerge ==
    /\ call.n < MaxCalls
    /\ \E text \in ApiTexts :
        LET m == extract_and_merge(scratchpad, text)
        IN  /\ scratchpad' = m.pad
            /\ Called("extract_and_merge", Len(text.toks), m.ret)
    /\ UNCHANGED SessionVars

ApiCompress ==
    /\ call.n < MaxCalls
    /\ scratchpad' = compress(scratchpad)
    /\ Called("_compress", 0, 0)
    /\ UNCHANGED SessionVars

ApiIncrementCycle ==
    /\ call.n < MaxCalls
    /\ scratchpad' = increment_cycle(scratchpad)
    /\ Called("increment_cycle", 0, 0)
    /\ UNCHANGED SessionVars

ApiUpdateConfidence ==
    /\ call.n < MaxCalls
    /\ scratchpad' = update_confidence(scratchpad, Pct(30))
    /\ Called("update_confidence", Pct(30), 0)
    /\ UNCHANGED SessionVars

ApiUpdateConfidenceFromCritique ==
    /\ call.n < MaxCalls
    /\ scratchpad' = update_confidence_from_critique(scratchpad, S1Critique, Pct(55))
    /\ Called("update_confidence_from_critique", Pct(55), 0)
    /\ UNCHANGED SessionVars

ApiRecordCycleInsights ==
    /\ call.n < MaxCalls
    /\ scratchpad' = record_cycle_insights(scratchpad, 3)
    /\ Called("record_cycle_insights", 3, 0)
    /\ UNCHANGED SessionVars

ApiCreateBranch ==
    /\ call.n < MaxCalls
    /\ scratchpad' = create_branch(scratchpad, 41)
    /\ Called("create_branch", 41, Len(scratchpad.branches) + 1)
    /\ UNCHANGED SessionVars

ApiUpdateBranchConfidence ==
    /\ call.n < MaxCalls
    /\ scratchpad' = update_branch_confidence(scratchpad, BranchId(1), Pct(70))
    /\ Called("update_branch_confidence", 1, 0)
    /\ UNCHANGED SessionVars

ApiDeactivateBranch ==
    /\ call.n < MaxCalls
    /\ scratchpad' = deactivate_branch(scratchpad, BranchId(1))
    /\ Called("deactivate_branch", 1, 0)
    /\ UNCHANGED SessionVars

ApiClearBranchProposals ==
    /\ call.n < MaxCalls
    /\ scratchpad' = clear_branch_proposals(scratchpad)
    /\ Called("clear_branch_proposals", 0, 0)
    /\ UNCHANGED SessionVars

\* `self.scratchpad.current_branch_id = branch.id` (harness_lite.py line 591)
ApiSetCurrentBranch ==
    /\ call.n < MaxCalls
    /\ \E i \in 1..Len(scratchpad.branches) :
        /\ scratchpad' = [scratchpad EXCEPT !.current_branch_id = scratchpad.branches[i].id]
        /\ Called("current_branch_id", i, 0)
    /\ UNCHANGED SessionVars

\* Scratchpad.from_dict(scratchpad.to_dict())
ApiRoundTrip ==
    /\ call.n < MaxCalls
    /\ scratchpad' = from_dict(to_dict(scratchpad))
    /\ Called("from_dict", 0, 0)
    /\ UNCHANGED SessionVars

NextPad ==
    \/ ApiAddClaim
    \/ ApiAddKeyEvidence
    \/ ApiExtractAndMerge
    \/ ApiCompress
    \/ ApiIncrementCycle
    \/ ApiUpdateConfidence
    \/ ApiUpdateConfidenceFromCritique
    \/ ApiRecordCycleInsights
    \/ ApiCreateBranch
    \/ ApiUpdateBranchConfidence
    \/ ApiDeactivateBranch
    \/ ApiClearBranchProposals
    \/ ApiSetCurrentBranch
    \/ ApiRoundTrip

SpecPad == InitPad /\ [][NextPad]_vars

----------------------------------------------------------------------------
\* check_termination as a function: its inputs are drawn from bounded sets
\* and one call is made.

MaxCount == 4                \* insight counts range over 0..MaxCount

TermConfidences == {Pct(50), Pct(53), Pct(56), Pct(80)}
TermHistories == {<<>>} \cup {<<a>> : a \in TermConfidences}
                 \cup {<<a, b>> : a, b \in TermConfidences}
TermCounts == {<<>>} \cup {<<a>> : a \in 0..MaxCount}
              \cup {<<a, b>> : a, b \in 0..MaxCount}
TermQuestions == {<<>>, <<33>>, <<33, 34>>}

InitTerm ==
    /\ \E cc \in 0..MaxCycles, h \in TermHistories, c \in TermConfidences,
          ic \in TermCounts, q \in TermQuestions :
        scratchpad = [NewScratchpad EXCEPT
                         !.cycle_count = cc,
                         !.confidence_history = h,
                         !.current_confidence = c,
                         !.insight_counts = ic,
                         !.sections["questions"].content = q]
    /\ max_cycles \in {2, MaxCycles + 1}
    /\ analysis_mode = "retrospective"
    /\ passes = <<>>
    /\ pc = "term_input"
    /\ cycle = 0
    /\ cycle_insights = 0
    /\ critique = NoPass
    /\ sweep = <<>>
    /\ termination_reason = None
    /\ result = NoResult
    /\ call = NoCall

CheckTermination ==
    /\ pc = "term_input"
    /\ termination_reason' = check_termination(scratchpad, max_cycles)
    /\ pc' = "term_output"
    /\ UNCHANGED <<scratchpad, max_cycles, analysis_mode, passes, cycle, cycle_insights,
                   critique, sweep, result, call>>

NextTerm == CheckTermination

SpecTerm == InitTerm /\ [][NextTerm]_vars

----------------------------------------------------------------------------
\* Scripted sessions: the oracle answers the expansion and critique passes
\* from the scripts of the end-to-end scenarios.

ScriptMaxCycles == 4         \* max_cycles ranges over 1..ScriptMaxCycles

\* ten items, none of them in a fresh scratchpad
TenText ==
    Text(<<Tok("INSIGHT", 31), Tok("EVIDENCE", 32), Tok("INSIGHT", 51), Tok("INSIGHT", 52),
           Tok("INSIGHT", 53), Tok("EVIDENCE", 54), Tok("EVIDENCE", 55), Tok("COUNTER", 56),
           Tok("PATTERN", 57), Tok("DECISION", 58)>>, <<>>)

\* three further items
ThreeText == Text(<<Tok("INSIGHT", 91), Tok("RISK", 92), Tok("QUESTION", 93)>>, <<>>)

ScriptExpansionTexts == {TenText, ThreeText}

\* scenario S2: a critique without markers whose one declaration is
\* CONCLUSION_CONFIDENCE: 0.60, read by the legacy CONFIDENCE pattern
SteadyCritique == Text(<<>>, <<Line("CONCLUSION_CONFIDENCE", Pct(60))>>)

\* the same with all three declarations at 0.60
SteadyThreePart == Text(<<>>, Triple(60, 60, 60))

\* flaw score 2, and a legacy declaration of the initial confidence 0.50
MildCritique == Text(<<Tok("TENSION_MISSING", 66)>>, <<Line("CONFIDENCE", Pct(50))>>)

\* flaw score 2 + 1 = 3, two branch proposals, low confidence
LowCritique ==
    Text(<<Tok("too_granular", 64), Tok("REFRAME", 65)>> \o Toks("BRANCH", <<41, 42>>),
         Triple(20, 20, 20))

ScriptCritiqueTexts == {SteadyCritique, SteadyThreePart, MildCritique, LowCritique}

InitScript ==
    /\ scratchpad = NewScratchpad
    /\ max_cycles \in 1..ScriptMaxCycles
    /\ analysis_mode = "retrospective"
    /\ passes = <<>>
    /\ pc = "init"
    /\ cycle = 0
    /\ cycle_insights = 0
    /\ critique = NoPass
    /\ sweep = <<>>
    /\ termination_reason = None
    /\ result = NoResult
    /\ call = NoCall

ScriptExpansion ==
    /\ pc = "expansion"
    /\ MergePass(ScriptExpansionTexts, "expansion", "compression")

ScriptCritique ==
    /\ pc = "critique"
    /\ CritiquePass(ScriptCritiqueTexts)

NextScript ==
    \/ RunInit
    \/ CycleStart
    \/ ScriptExpansion
    \/ Compression
    \/ ScriptCritique
    \/ TargetedExpansion
    \/ ReCompression
    \/ RecordAndBranch
    \/ BranchExpansion
    \/ BranchCompression
    \/ BranchCritique
    \/ TermCheck
    \/ Synthesis

SpecScript == InitScript /\ [][NextScript]_vars

----------------------------------------------------------------------------
\* Scripted sessions in which an oracle call may not return: the task is
\* cancelled while it awaits _call_claude, or _call_claude raises.

\* where run() is inside a pass, awaiting the oracle
OraclePcs ==
    {"expansion", "compression", "critique", "re_expansion", "re_compression",
     "branch_expansion", "branch_compression", "branch_critique", "synthesis"}

\* what ends the await: asyncio.CancelledError thrown into it, the last
\* TimeoutException or ConnectError after the retries, or any other exception
\* (raise_for_status, a malformed body) at once
OracleErrors == {"CancelledError", "TimeoutException", "ConnectError", "HTTPStatusError"}

\* faulty variant: the confidence is logged when the pass begins
before_call_logging(pad) == update_confidence(pad, pad.current_confidence)

\* a pass up to its `await self._call_claude(...)`: the prompt is built from
\* render(), which changes nothing
before_call(pad) == pad

\* no pass and no caller up to run() catches the exception: run() raises it
OracleFails ==
    /\ pc \in OraclePcs
    /\ \E e \in OracleErrors : call' = [NoCall EXCEPT !.op = e]
    /\ scratchpad' = before_call(scratchpad)
    /\ pc' = "raised"
    /\ UNCHANGED <<max_cycles, analysis_mode, passes, cycle, cycle_insights, critique,
                   sweep, termination_reason, result>>

NextFail ==
    \/ NextScript
    \/ OracleFails

SpecFail == InitScript /\ [][NextFail]_vars

----------------------------------------------------------------------------
\* One oracle call: MultiPassHarnessLite._call_claude(system, user, max_tokens,
\* retries), a step for each `await`.

MaxRetries == 3              \* retries ranges over 1..MaxRetries (default 3)

\* instances of httpx.TimeoutException or httpx.ConnectError: the except clause
RetriedErrors == {"ReadTimeout", "ConnectTimeout", "ConnectError"}

\* what else client.post and raise_for_status raise: the HTTPStatusError of a
\* 429 response and httpx.ReadError (a NetworkError that is no ConnectError)
UncaughtErrors == {"HTTPStatusError_429", "ReadError"}

\* wait_time = (2 ** attempt) * 2
wait_time(attempt) == (2 ^ attempt) * 2

InitCall ==
    /\ scratchpad = NewScratchpad
    /\ max_cycles = 5
    /\ analysis_mode = "forward"
    /\ passes = <<>>
    /\ pc = "post"
    /\ cycle = 0
    /\ cycle_insights = 0
    /\ critique = NoPass
    /\ sweep = <<>>
    /\ termination_reason = None
    /\ result = NoResult
    /\ \E r \in 1..MaxRetries :
        call = [op |-> "_call_claude", retries |-> r, attempt |-> 0, last_error |-> None,
                errors |-> <<>>, slept |-> <<>>, ret |-> None, raised |-> None]

CallUnchanged ==
    UNCHANGED <<scratchpad, max_cycles, analysis_mode, passes, cycle, cycle_insights,
                critique, sweep, termination_reason, result>>

\* lines 111-134: the response arrives with status 2xx
PostReturns ==
    /\ pc = "post"
    /\ call' = [call EXCEPT !.ret = "content"]
    /\ pc' = "returned"
    /\ CallUnchanged

\* lines 136-140 and 142: a caught error; the sleep follows unless this was
\* the last attempt, and then the loop ends and last_error is raised
PostFailsCaught ==
    /\ pc = "post"
    /\ \E e \in RetriedErrors :
        /\ call' = [call EXCEPT !.last_error = e, !.errors = Append(@, e),
                                !.raised = IF call.attempt < call.retries - 1 THEN None ELSE e]
        /\ pc' = IF call.attempt < call.retries - 1 THEN "sleep" ELSE "raised"
    /\ CallUnchanged

\* an error the except clause does not name leaves _call_claude at once
PostFailsUncaught ==
    /\ pc = "post"
    /\ \E e \in UncaughtErrors :
        call' = [call EXCEPT !.errors = Append(@, e), !.raised = e]
    /\ pc' = "raised"
    /\ CallUnchanged

\* line 140 and the next turn of the loop
SleepEnds ==
    /\ pc = "sleep"
    /\ call' = [call EXCEPT !.slept = Append(@, wait_time(call.attempt)),
                            !.attempt = @ + 1]
    /\ pc' = "post"
    /\ CallUnchanged

NextCall ==
    \/ PostReturns
    \/ PostFailsCaught
    \/ PostFailsUncaught
    \/ SleepEnds

SpecCall == InitCall /\ [][NextCall]_vars

----------------------------------------------------------------------------
\* Pass 0: ThesisRouter.route_with_enhancement(query, claims) over a library
\* of theses and patterns (MemoryManager).  Texts are sequences of words; the
\* words of the menus are chosen so that no lower-cased word of a query or a
\* claim is a proper part of a word of the library or of a strategic keyword,
\* which makes Python's `term in searchable` the membership of a word.

\* str.lower() of a word
lower(w) ==
    CASE w = "Discord's" -> "discord's"
      [] w = "Gaming" -> "gaming"
      [] w = "Consolidation" -> "consolidation"
      [] w = "Platform" -> "platform"
      [] w = "Aggregation" -> "aggregation"
      [] w = "Should" -> "should"
      [] w = "Nvidia," -> "nvidia,"
      [] w = "Discord" -> "discord"
      [] w = "Nvidia" -> "nvidia"
      [] OTHER -> w

LowerAll(ws) == [i \in 1..Len(ws) |-> lower(ws[i])]

\* re.findall(r'\b[A-Z][a-z]+(?:\s+[A-Z][a-z]+)*\b', word): the capitalized
\* run inside one word, None when there is none (no two such words are
\* adjacent in the menus)
capitalized(w) ==
    CASE w = "Discord's" -> "Discord"
      [] w = "Nvidia," -> "Nvidia"
      [] w = "Should" -> "Should"
      [] w = "Gaming" -> "Gaming"
      [] OTHER -> None

RECURSIVE Flatten(_)
Flatten(seqs) == IF seqs = <<>> THEN <<>> ELSE Head(seqs) \o Flatten(Tail(seqs))

\* " ".join(c.get('text', '') for c in claims), as words
claim_words(claims) == Flatten([i \in 1..Len(claims) |-> claims[i].text])

\* sorted(scored, key=score, reverse=True): stable, highest score first
RECURSIVE SortByScore(_)
SortByScore(scored) ==
    IF scored = <<>> THEN <<>>
    ELSE LET best == CHOOSE i \in 1..Len(scored) :
                        /\ \A j \in 1..Len(scored) : scored[j].score <= scored[i].score
                        /\ \A j \in 1..(i - 1) : scored[j].score < scored[i].score
             rest == [j \in 1..(Len(scored) - 1) |->
                         IF j < best THEN scored[j] ELSE scored[j + 1]]
         IN  <<scored[best]>> \o SortByScore(rest)

\* the positive scores of the library's items, best first, at most `limit`
Ranked(items, score(_), limit) ==
    LET scored == [i \in 1..Len(items) |-> [score |-> score(items[i]), item |-> items[i]]]
        hits == SortByScore(SelectSeq(scored, LAMBDA x : x.score > 0))
    IN  [i \in 1..Min(limit, Len(hits)) |-> hits[i].item]

\* MemoryManager.search_theses
search_theses(memory, terms, limit) ==
    LET score(thesis) ==
            LET searchable == Range(LowerAll(thesis.title \o thesis.summary
                                             \o <<thesis.domain>> \o thesis.tags))
                title == Range(LowerAll(thesis.title))
                point(term) == (IF term \in searchable THEN 1 ELSE 0)
                               + (IF term \in title THEN 2 ELSE 0)
                               + (IF term \in Range(thesis.tags) THEN 2 ELSE 0)
            IN  SumSeq([i \in 1..Len(terms) |-> point(terms[i])])
    IN  Ranked(memory.theses, score, limit)

\* MemoryManager.search_patterns
search_patterns(memory, terms, limit) ==
    LET score(pattern) ==
            LET searchable == Range(LowerAll(pattern.title \o pattern.content))
            IN  SumSeq([i \in 1..Len(terms) |-> IF terms[i] \in searchable THEN 1 ELSE 0])
    IN  Ranked(memory.patterns, score, limit)

TOTAL_BUDGET == 8000

\* ThesisRouter.BUDGET_ALLOCATIONS, in hundredths
BUDGET_ALLOCATIONS ==
    [FIT |-> [thesis |-> 40, pattern |-> 0, data |-> 30, reasoning |-> 30],
     ADJACENT |-> [thesis |-> 0, pattern |-> 30, data |-> 40, reasoning |-> 30],
     NET_NEW |-> [thesis |-> 10, pattern |-> 0, data |-> 30, reasoning |-> 60]]

\* ThesisRouter._allocate_budget: int(TOTAL_BUDGET * fraction)
allocate_budget(route_type) ==
    LET allocation == BUDGET_ALLOCATIONS[route_type]
    IN  [thesis_tokens |-> (TOTAL_BUDGET * allocation.thesis) \div 100,
         pattern_tokens |-> (TOTAL_BUDGET * allocation.pattern) \div 100,
         data_tokens |-> (TOTAL_BUDGET * allocation.data) \div 100,
         reasoning_tokens |-> (TOTAL_BUDGET * allocation.reasoning) \div 100]

\* faulty variant: without any match the routing is ADJACENT
classify_adjacent_default(query, theses, patterns) ==
    LET query_terms == Range(LowerAll(query))
        best_thesis == theses[1]
        thesis_terms == Range(LowerAll(best_thesis.title)) \cup Range(best_thesis.tags)
        overlap == Cardinality(query_terms \cap thesis_terms)
        tagged == \E i \in 1..Len(best_thesis.tags) : lower(best_thesis.tags[i]) \in query_terms
    IN  IF theses # <<>> /\ (overlap >= 2 \/ tagged)
        THEN [route_type |-> "FIT", confidence |-> Min(Pct(90), Pct(50) + overlap * Pct(10)),
              reasoning |-> <<"matches thesis", best_thesis.title>>]
        ELSE IF patterns # <<>> /\ theses = <<>>
        THEN [route_type |-> "ADJACENT", confidence |-> Pct(60),
              reasoning |-> <<"relates to framework", patterns[1].title>>]
        ELSE [route_type |-> "ADJACENT", confidence |-> Pct(50),
              reasoning |-> <<"weak matches">>]

\* ThesisRouter._classify: (route_type, confidence, reasoning)
classify(query, theses, patterns) ==
    LET query_terms == Range(LowerAll(query))
        best_thesis == theses[1]
        thesis_terms == Range(LowerAll(best_thesis.title)) \cup Range(best_thesis.tags)
        overlap == Cardinality(query_terms \cap thesis_terms)
        tagged == \E i \in 1..Len(best_thesis.tags) : lower(best_thesis.tags[i]) \in query_terms
    IN  IF theses # <<>> /\ (overlap >= 2 \/ tagged)
        THEN [route_type |-> "FIT", confidence |-> Min(Pct(90), Pct(50) + overlap * Pct(10)),
              reasoning |-> <<"matches thesis", best_thesis.title>>]
        ELSE IF patterns # <<>> /\ theses = <<>>
        THEN [route_type |-> "ADJACENT", confidence |-> Pct(60),
              reasoning |-> <<"relates to framework", patterns[1].title>>]
        ELSE IF theses # <<>> /\ patterns # <<>>
        THEN [route_type |-> "ADJACENT", confidence |-> Pct(50),
              reasoning |-> <<"weak matches", theses[1].title, patterns[1].title>>]
        ELSE [route_type |-> "NET_NEW", confidence |-> Pct(80),
              reasoning |-> <<"fresh analysis territory">>]

\* ThesisRouter.route
route(memory, query, claims) ==
    LET search_text == LowerAll(query \o claim_words(claims))
        matched_theses == search_theses(memory, search_text, 3)
        matched_patterns == search_patterns(memory, search_text, 2)
        c == classify(query, matched_theses, matched_patterns)
    IN  [route_type |-> c.route_type,
         confidence |-> c.confidence,
         matched_theses |-> matched_theses,
         matched_patterns |-> matched_patterns,
         budget |-> allocate_budget(c.route_type),
         reasoning |-> c.reasoning]

\* list(set(entities))[:10]; the order of a set's elements does not reach the
\* result, the search summing over the terms
RECURSIVE SetToSeqOf(_)
SetToSeqOf(S) ==
    IF S = {} THEN <<>>
    ELSE LET x == CHOOSE y \in S : TRUE IN <<x>> \o SetToSeqOf(S \ {x})

strategic_keywords ==
    {"market", "competition", "valuation", "growth", "margin",
     "acquisition", "strategy", "moat", "disruption", "thesis"}

\* ThesisRouter._extract_entities, lower-cased for the search
extract_entities(claims) ==
    LET words == claim_words(claims)
        caps == SelectSeq([i \in 1..Len(words) |-> capitalized(words[i])],
                          LAMBDA e : e # None)
    IN  FirstN(SetToSeqOf(Range(caps)), 10)

\* faulty variant: the upgrade keeps the budget of the first routing
route_with_enhancement_keeping_budget(memory, query, claims) ==
    LET routed == route(memory, query, claims)
        entities == extract_entities(claims)
        patterns == search_patterns(memory, LowerAll(entities), 2)
    IN  IF /\ routed.route_type = "NET_NEW"
           /\ claims # <<>>
           /\ \E kw \in strategic_keywords : kw \in Range(LowerAll(claim_words(claims)))
           /\ entities # <<>>
           /\ patterns # <<>>
        THEN [routed EXCEPT !.route_type = "ADJACENT", !.matched_patterns = patterns,
                            !.reasoning = <<"strategic concepts", patterns[1].title>>]
        ELSE routed

\* ThesisRouter.route_with_enhancement
route_with_enhancement(memory, query, claims) ==
    LET routed == route(memory, query, claims)
        entities == extract_entities(claims)
        patterns == search_patterns(memory, LowerAll(entities), 2)
    IN  IF /\ routed.route_type = "NET_NEW"
           /\ claims # <<>>
           /\ \E kw \in strategic_keywords : kw \in Range(LowerAll(claim_words(claims)))
           /\ entities # <<>>
           /\ patterns # <<>>
        THEN [routed EXCEPT !.route_type = "ADJACENT", !.matched_patterns = patterns,
                            !.reasoning = <<"strategic concepts", patterns[1].title>>,
                            !.budget = allocate_budget("ADJACENT")]
        ELSE routed

\* the library: theses and patterns as loaded from the memories directory
LibraryTheses ==
    <<[id |-> "gaming-consolidation", title |-> <<"Gaming", "Consolidation">>,
       domain |-> "gaming", summary |-> <<"studios", "merge">>,
       tags |-> <<"gaming", "acquisition">>],
      [id |-> "chip-supply", title |-> <<"chip", "supply">>,
       domain |-> "semis", summary |-> <<"foundry", "capacity">>, tags |-> <<"nvidia">>]>>

LibraryPatterns ==
    <<[id |-> "platform-moat", title |-> <<"Platform", "moat">>,
       content |-> <<"network", "effects", "discord">>],
      [id |-> "aggregation", title |-> <<"Aggregation">>,
       content |-> <<"demand", "nvidia", "discord">>]>>

\* every sub-list of a list, in the list's order
RECURSIVE SubLists(_)
SubLists(seq) ==
    IF seq = <<>> THEN {<<>>}
    ELSE LET rest == SubLists(Tail(seq))
         IN  rest \cup {<<Head(seq)>> \o r : r \in rest}

Libraries ==
    {[theses |-> t, patterns |-> q] : t \in SubLists(LibraryTheses), q \in SubLists(LibraryPatterns)}

Queries ==
    {<<"Should", "microsoft", "acquire", "discord">>,
     <<"Gaming", "consolidation", "outlook">>,
     <<"chip", "prices">>,
     <<"nvidia", "discord", "deal">>,
     <<"quantum", "sensors">>}

RouterClaims ==
    {<<>>,
     <<[text |-> <<"Discord's", "moat", "widens">>]>>,
     <<[text |-> <<"sensors", "improve">>], [text |-> <<"Nvidia,", "growth", "slows">>]>>,
     <<[text |-> <<"Discord's", "users", "stay">>]>>}

InitRoute ==
    /\ scratchpad = NewScratchpad
    /\ max_cycles = 5
    /\ analysis_mode = "forward"
    /\ passes = <<>>
    /\ pc = "route_input"
    /\ cycle = 0
    /\ cycle_insights = 0
    /\ critique = NoPass
    /\ sweep = <<>>
    /\ termination_reason = None
    /\ result = NoResult
    /\ \E m \in Libraries, q \in Queries, c \in RouterClaims :
        call = [op |-> "route_with_enhancement", memory |-> m, query |-> q, claims |-> c,
                ret |-> None]

\* route_query(query, claims)
RouteQuery ==
    /\ pc = "route_input"
    /\ call' = [call EXCEPT !.ret = route_with_enhancement(call.memory, call.query, call.claims)]
    /\ pc' = "route_output"
    /\ UNCHANGED <<scratchpad, max_cycles, analysis_mode, passes, cycle, cycle_insights,
                   critique, sweep, termination_reason, result>>

NextRoute == RouteQuery

SpecRoute == InitRoute /\ [][NextRoute]_vars

----------------------------------------------------------------------------
\* Scratchpad.update_confidence_from_critique(critique_text, conclusion) as a
\* function: the mode, the scores before and the critique are drawn from
\* bounded sets and one call is made.

MarkerCritiques ==
    {EmptyText,
     Text(<<Tok("HINDSIGHT", 21)>>, <<>>),
     Text(<<Tok("HINDSIGHT", 36)>>, <<>>),
     Text(<<Tok("HINDSIGHT", 36), Tok("SURVIVORSHIP", 37)>>, <<>>),
     Text(<<Tok("SURVIVORSHIP", 37), Tok("SURVIVORSHIP", 37)>>, <<>>),
     Text(<<Tok("CIRCULAR", 38), Tok("HINDSIGHT", 36)>>, <<>>),
     Text(<<Tok("CIRCULAR", 38), Tok("SUNK_COST", 39), Tok("HINDSIGHT", 36)>>, <<>>),
     Text(<<Tok("TOO_GRANULAR", 64), Tok("TENSION_MISSING", 66)>>, <<>>),
     Text(<<Tok("MISAPPLIED", 67)>>, <<>>),
     Text(<<Tok("UNVERIFIED", 62), Tok("TOO_ABSTRACT", 68), Tok("TENSION_WRONG", 69)>>, <<>>)}

ScoresBefore == {Pct(60), Pct(75), One}

InitCritique ==
    /\ \E mode \in {"forward", "retrospective"}, rq \in ScoresBefore, eq \in ScoresBefore,
          ri \in {<<>>, <<[marker |-> "HINDSIGHT", text |-> 36]>>} :
        scratchpad = [NewScratchpad EXCEPT
                         !.confidence_model.analysis_mode = mode,
                         !.confidence_model.reasoning_quality = rq,
                         !.confidence_model.evidence_quality = eq,
                         !.confidence_model.retrospective_insights =
                             IF mode = "forward" THEN <<>> ELSE ri]
    /\ max_cycles = 5
    /\ analysis_mode = scratchpad.confidence_model.analysis_mode
    /\ passes = <<>>
    /\ pc = "critique_input"
    /\ cycle = 0
    /\ cycle_insights = 0
    /\ critique = NoPass
    /\ sweep = <<>>
    /\ termination_reason = None
    /\ result = NoResult
    /\ call = NoCall

UpdateConfidenceFromCritique ==
    /\ pc = "critique_input"
    /\ \E text \in MarkerCritiques :
        /\ scratchpad' = update_confidence_from_critique(scratchpad, text, Pct(55))
        /\ call' = [NoCall EXCEPT !.op = "update_confidence_from_critique", !.arg = text]
    /\ pc' = "critique_output"
    /\ UNCHANGED <<max_cycles, analysis_mode, passes, cycle, cycle_insights, critique,
                   sweep, termination_reason, result>>

NextCritique == UpdateConfidenceFromCritique

SpecCritique == InitCritique /\ [][NextCritique]_vars

----------------------------------------------------------------------------
\* Scratchpad._compress() as a function: the section contents, the key
\* evidence and the branch records are drawn from bounded sets and one call is
\* made.  Items 41..58 are 40-character strings.

ShortItems(from, n) == [i \in 1..n |-> from + i - 1]

\* contents of the insights section (preserved)
PreservedLists ==
    {<<>>, ShortItems(41, 3), ShortItems(41, 10), ShortItems(41, 12),
     [i \in 1..BigInsightCount |-> i],
     <<41>> \o [i \in 1..BigInsightCount |-> i],
     [i \in 1..BigInsightCount |-> i] \o <<41, 42>>}

\* contents of the risks and questions sections (not preserved)
UnpreservedLists ==
    {<<>>, ShortItems(53, 5), ShortItems(53, 6),
     [i \in 1..BigRiskCount |-> 20 + i],
     <<53, 54>> \o [i \in 1..BigRiskCount |-> 20 + i]}

InitCompress ==
    /\ \E insights \in PreservedLists, risks \in UnpreservedLists,
          questions \in {<<>>, ShortItems(53, 7)},
          decisions \in {<<>>, ShortItems(41, 11)},
          evidence \in {<<>>, <<Evidence(81, "CLAIM-1", Pct(70), "supports"),
                                Evidence(82, "CLAIM-2", Pct(50), "neutral")>>},
          proposals \in {<<>>, <<41, 42>>} :
        scratchpad =
            LET pad == [NewScratchpad EXCEPT
                           !.sections["insights"].content = insights,
                           !.sections["risks"].content = risks,
                           !.sections["questions"].content = questions,
                           !.sections["decisions"].content = decisions,
                           !.sections["branches"].content = proposals,
                           !.key_evidence = evidence]
            IN  IF proposals = <<>> THEN pad ELSE create_branch(pad, proposals[1])
    /\ max_cycles = 5
    /\ analysis_mode = "retrospective"
    /\ passes = <<>>
    /\ pc = "compress_input"
    /\ cycle = 0
    /\ cycle_insights = 0
    /\ critique = NoPass
    /\ sweep = <<>>
    /\ termination_reason = None
    /\ result = NoResult
    /\ call = NoCall

Compress ==
    /\ pc = "compress_input"
    /\ scratchpad' = compress(scratchpad)
    /\ call' = [NoCall EXCEPT !.op = "_compress"]
    /\ pc' = "compress_output"
    /\ UNCHANGED <<max_cycles, analysis_mode, passes, cycle, cycle_insights, critique,
                   sweep, termination_reason, result>>

NextCompress == Compress

SpecCompress == InitCompress /\ [][NextCompress]_vars

----------------------------------------------------------------------------
\* server_lite.py: the session store under concurrent /harness/run requests.
\* Each request handler is a coroutine: it suspends inside harness.run() at
\* every await, so other handlers start and finish in between.  The record
\* `call` holds the wall clock in whole seconds, the handlers, and the two
\* module-level dicts `sessions` and `harness_results`; a dict maps the
\* timestamp of a "harness-<timestamp>" key to the request whose scratchpad or
\* result is stored under it (0: no such key).

NumRequests == 3
MaxClock == 2

Requests == 1..NumRequests
Timestamps == 0..MaxClock

\* no session id yet
NoSession == MaxClock + 1

InitStore ==
    /\ scratchpad = NewScratchpad
    /\ max_cycles = 5
    /\ analysis_mode = "retrospective"
    /\ passes = <<>>
    /\ pc = "serving"
    /\ cycle = 0
    /\ cycle_insights = 0
    /\ critique = NoPass
    /\ sweep = <<>>
    /\ termination_reason = None
    /\ result = NoResult
    /\ call = [op |-> "none",
               now |-> 0,
               handler |-> [r \in Requests |-> "waiting"],
               session_id |-> [r \in Requests |-> NoSession],
               sessions |-> [t \in Timestamps |-> 0],
               harness_results |-> [t \in Timestamps |-> 0]]

StoreUnchanged ==
    UNCHANGED <<scratchpad, max_cycles, analysis_mode, passes, pc, cycle, cycle_insights,
                critique, sweep, termination_reason, result>>

\* a second of wall-clock time passes
ClockTick ==
    /\ call.now < MaxClock
    /\ call' = [call EXCEPT !.op = "tick", !.now = @ + 1]
    /\ StoreUnchanged

\* server_lite.py lines 221-232 and harness_lite.py lines 151-155: the handler
\* builds its own harness and scratchpad; the session id is the start time in
\* whole seconds
RunHarnessStarts(r) ==
    /\ call.handler[r] = "waiting"
    /\ call' = [call EXCEPT !.op = "run", !.handler[r] = "running",
                            !.session_id[r] = call.now]
    /\ StoreUnchanged

\* server_lite.py lines 234-236: harness.run() has returned; the result and
\* its scratchpad are stored under the session id
RunHarnessStores(r) ==
    /\ call.handler[r] = "running"
    /\ call' = [call EXCEPT !.op = "store", !.handler[r] = "stored",
                            !.harness_results[call.session_id[r]] = r,
                            !.sessions[call.session_id[r]] = r]
    /\ StoreUnchanged

NextStore ==
    \/ ClockTick
    \/ \E r \in Requests : RunHarnessStarts(r)
    \/ \E r \in Requests : RunHarnessStores(r)

SpecStore == InitStore /\ [][NextStore]_vars

----------------------------------------------------------------------------
\* The scores under arbitrary oracle output: critiques and branch critiques
\* whose declarations are out of range (1.5, 2.5, -0.2) or at the ends of the
\* range and whose marker counts are high, then the synthesis blend.

MaxScoreSteps == 3

ScoreTexts ==
    {Text(<<>>, Triple(150, 150, 150)),
     Text(<<>>, Triple(95, 5, 99)),
     Text(<<>>, Triple(0, 0, 0)),
     Text(<<>>, <<Line("CONFIDENCE", 0 - Pct(20))>>),
     Text(<<>>, <<Line("CONFIDENCE", Pct(250)), Line("CONFIDENCE", 0)>>),
     Text(Toks("CIRCULAR", <<61, 62, 63, 64, 65, 66, 67>>)
          \o Toks("DATED", <<61, 62, 63, 64, 65, 66, 67>>), Triple(10, 10, 0))}

BranchScoreTexts ==
    {Text(<<>>, <<Line("CONFIDENCE", Pct(150))>>),
     Text(<<>>, <<Line("CONFIDENCE", Pct(99))>>),
     Text(<<>>, <<Line("CONFIDENCE", 0 - Pct(20))>>),
     Text(<<>>, <<Line("CONFIDENCE", 0)>>)}

InitScores ==
    /\ \E mode \in {"forward", "retrospective"} :
        scratchpad = [NewScratchpad EXCEPT !.confidence_model.analysis_mode = mode]
    /\ max_cycles = 5
    /\ analysis_mode = scratchpad.confidence_model.analysis_mode
    /\ passes = <<>>
    /\ pc = "scoring"
    /\ cycle = 0
    /\ cycle_insights = 0
    /\ critique = NoPass
    /\ sweep = <<>>
    /\ termination_reason = None
    /\ result = NoResult
    /\ call = NoCall

ScoresUnchanged ==
    UNCHANGED <<max_cycles, analysis_mode, passes, pc, cycle, cycle_insights, critique,
                sweep, termination_reason, result>>

\* _run_critique
ScoreCritique ==
    /\ call.n < MaxScoreSteps
    /\ \E text \in ScoreTexts :
        /\ scratchpad' = run_critique(scratchpad, text).pad
        /\ Called("_run_critique", text, 0)
    /\ ScoresUnchanged

\* _run_branch_cycles, lines 606-609, on the first branch (made from a
\* proposal if there is none yet)
ScoreBranch ==
    /\ call.n < MaxScoreSteps
    /\ \E text \in BranchScoreTexts :
        LET pad == IF scratchpad.branches = <<>> THEN create_branch(scratchpad, 41)
                   ELSE scratchpad
            found == Search("CONFIDENCE", text)
        IN  /\ scratchpad' = IF found # NoMatch
                             THEN set_branch_confidence(pad, pad.branches[1].id, found)
                             ELSE pad
            /\ Called("_run_branch_critique", text, 0)
    /\ ScoresUnchanged

\* _run_synthesis, lines 757-763
ScoreSynthesis ==
    /\ call.n < MaxScoreSteps
    /\ scratchpad' = [scratchpad EXCEPT !.current_confidence = synthesis_confidence(scratchpad)]
    /\ Called("_run_synthesis", EmptyText, 0)
    /\ ScoresUnchanged

NextScores ==
    \/ ScoreCritique
    \/ ScoreBranch
    \/ ScoreSynthesis

SpecScores == InitScores /\ [][NextScores]_vars

----------------------------------------------------------------------------
\* agentic_runner.py: AgenticStrategyRunner.run_scenario over a ThesisState
\* (working_memory.py).  The record `call` holds the fields of the state that
\* enter a condition of the loop or of the final passes (iteration,
\* max_iterations, decision, confidence, confidence_history, the number of
\* open questions; key_evidence stays empty and no question is answered in
\* this runner) and the list of final passes run.  The thesis text, the
\* evidence lists and the investigated areas enter no condition and are left
\* out.

MaxIterations == 3

\* ThesisState as create_initial_state returns it: two open questions
NewThesisState(max_iterations) ==
    [op |-> "create_initial_state",
     iteration |-> 0,
     max_iterations |-> max_iterations,
     decision |-> None,
     confidence |-> Pct(50),
     confidence_history |-> <<>>,
     open_questions |-> 2,
     final_passes |-> <<>>]

\* ThesisState.should_continue
should_continue(state) ==
    IF state.iteration >= state.max_iterations THEN FALSE
    ELSE IF state.decision = "conclude" THEN FALSE
    ELSE IF state.open_questions = 0 THEN FALSE
    ELSE TRUE

\* ThesisState.update_confidence: the history takes the confidence replaced
thesis_update_confidence(state, new_confidence) ==
    [state EXCEPT !.confidence_history = Append(@, state.confidence),
                  !.confidence = new_confidence]

\* _update_state_from_compression: compression.get("confidence",
\* state.confidence) is applied when it is a number ("absent": the default,
\* the present confidence; "text": not a number), and next_priority adds a
\* question
update_state_from_compression(state, confidence, next_priority) ==
    LET updated == IF confidence.kind = "text" THEN state
                   ELSE thesis_update_confidence(
                            state, IF confidence.kind = "absent" THEN state.confidence
                                   ELSE confidence.val)
    IN  [updated EXCEPT !.open_questions = @ + (IF next_priority THEN 1 ELSE 0)]

\* _apply_critique_decision: the questions of the critique, then the decision
apply_critique_decision(state, decision, asked) ==
    [state EXCEPT !.open_questions = @ + asked,
                  !.decision = CASE decision = "CONCLUDE" -> "conclude"
                                 [] decision = "PIVOT" -> "pivot"
                                 [] OTHER -> "continue"]

\* ThesisState.detect_saturation: twice the saturation score
saturation_score(state) ==
    LET h == state.confidence_history
        n == Len(h)
        first == IF n - 2 > 0 THEN n - 2 ELSE 0
        \* the 0-based indices i of range(max(0, n - 2), n) with i > 0
        recent == {i \in first..(n - 1) : i > 0}
        stable == /\ n >= 2
                  /\ recent # {}
                  /\ \A i \in recent : Abs(h[i + 1] - h[i]) < Pct(5)
    IN  (IF stable THEN 2 ELSE 0)
        + (IF state.confidence >= Pct(75) THEN 2
           ELSE IF state.confidence <= Pct(25) THEN 1 ELSE 0)
        + (IF state.iteration >= 2 THEN 1 ELSE 0)
        + (IF state.open_questions = 0 THEN 2
           ELSE IF state.open_questions <= 1 /\ state.iteration >= 2 THEN 1 ELSE 0)
        + (IF state.iteration >= state.max_iterations - 1 THEN 1 ELSE 0)

\* _check_saturation: saturated (score >= 2.0), and then the recommendation
\* is "conclude" whatever the confidence
check_saturation(state) == saturation_score(state) >= 4

\* what the compression pass and the critique pass can return
CompressionConfidences ==
    {[kind |-> "absent", val |-> 0], [kind |-> "text", val |-> 0]}
        \cup {[kind |-> "number", val |-> Pct(c)] : c \in {30, 60, 80}}
CritiqueDecisions == {"CONTINUE", "CONCLUDE", "PIVOT", "UNKNOWN"}

InitAgentic ==
    /\ scratchpad = NewScratchpad
    /\ max_cycles = 5
    /\ analysis_mode = "retrospective"
    /\ passes = <<>>
    /\ pc = "agentic_loop"
    /\ cycle = 0
    /\ cycle_insights = 0
    /\ critique = NoPass
    /\ sweep = <<>>
    /\ termination_reason = None
    /\ result = NoResult
    /\ \E m \in 1..MaxIterations : call = NewThesisState(m)

AgenticUnchanged ==
    UNCHANGED <<scratchpad, max_cycles, analysis_mode, passes, cycle, cycle_insights,
                critique, sweep, termination_reason, result>>

\* run_scenario, lines 430-459: one iteration of the loop
AgenticIteration ==
    /\ pc = "agentic_loop"
    /\ should_continue(call)
    /\ \E confidence \in CompressionConfidences, next_priority \in BOOLEAN,
          decision \in CritiqueDecisions, asked \in {0, 1} :
        LET started == [call EXCEPT !.op = "iteration", !.iteration = @ + 1]
            compressed == update_state_from_compression(started, confidence, next_priority)
            decided == apply_critique_decision(compressed, decision, asked)
        IN  call' = IF decided.decision = "continue" /\ check_saturation(decided)
                    THEN [decided EXCEPT !.decision = "conclude"]
                    ELSE decided
    /\ pc' = pc
    /\ AgenticUnchanged

\* run_scenario, line 430: the loop condition fails
AgenticLoopEnds ==
    /\ pc = "agentic_loop"
    /\ ~should_continue(call)
    /\ call' = [call EXCEPT !.op = "loop_end"]
    /\ pc' = "agentic_final"
    /\ AgenticUnchanged

\* run_scenario, lines 486-489
EscapeHatch ==
    /\ pc = "agentic_final"
    /\ call.iteration >= call.max_iterations /\ call.confidence < Pct(50)
    /\ call' = [call EXCEPT !.op = "_run_escape_hatch",
                            !.final_passes = Append(@, "escape_hatch"),
                            !.decision = "blocked"]
    /\ pc' = "agentic_done"
    /\ AgenticUnchanged

\* run_scenario, lines 490-493
FinalSynthesis ==
    /\ pc = "agentic_final"
    /\ ~(call.iteration >= call.max_iterations /\ call.confidence < Pct(50))
    /\ call.decision = "conclude"
    /\ call' = [call EXCEPT !.op = "_run_synthesis_pass",
                            !.final_passes = Append(@, "synthesis")]
    /\ pc' = "agentic_done"
    /\ AgenticUnchanged

\* run_scenario, lines 486-493: neither condition holds
NoFinalPass ==
    /\ pc = "agentic_final"
    /\ ~(call.iteration >= call.max_iterations /\ call.confidence < Pct(50))
    /\ call.decision # "conclude"
    /\ call' = [call EXCEPT !.op = "summary"]
    /\ pc' = "agentic_done"
    /\ AgenticUnchanged

NextAgentic ==
    \/ AgenticIteration
    \/ AgenticLoopEnds
    \/ EscapeHatch
    \/ FinalSynthesis
    \/ NoFinalPass

SpecAgentic == InitAgentic /\ [][NextAgentic]_vars

----------------------------------------------------------------------------
\* Properties

SectionContent(s) == scratchpad.sections[s].content
ActiveCount == Len(get_active_branches(scratchpad))
CountOf(seq, x) == Len(SelectSeq(seq, LAMBDA y : y = x))
MeanOfThree(cm) ==
    (cm.reasoning_quality + cm.evidence_quality + cm.conclusion_confidence) \div 3

\* C1: no Scratchpad call, extract_and_merge and _compress among them, removes,
\* changes or reorders an item of key_evidence: the list before the call is a
\* subsequence of the list after it, and after extract_and_merge or _compress
\* it is the same list.
C1_KeyEvidencePreserved ==
    [][/\ IsSubseq(scratchpad.key_evidence, scratchpad'.key_evidence)
       /\ call'.op \in {"extract_and_merge", "_compress"}
            => scratchpad'.key_evidence = scratchpad.key_evidence]_vars

\* two key-evidence items have survived an extract_and_merge that ran both
\* compression tiers (11 long insights cut to 10, 6 long risks cut to 5)
C1_Witness ==
    /\ call.op = "extract_and_merge"
    /\ Len(scratchpad.key_evidence) >= 2
    /\ Len(SectionContent("insights")) = 10
    /\ Len(SectionContent("risks")) = 5
    /\ estimate_tokens(scratchpad.sections) > MAX_TOKENS

\* C2: in every state of a session at most MAX_BRANCHES branches are active.
C2_ActiveBranchesBounded == ActiveCount <= MAX_BRANCHES

\* the branch sweep starts with MAX_BRANCHES active branches after a critique
\* that proposed more branches than that
C2_Witness ==
    /\ pc = "branch_expansion"
    /\ ActiveCount = MAX_BRANCHES
    /\ CountI("BRANCH", critique.content) > MAX_BRANCHES

\* C3 as stated: when run() returns, at most max_cycles main cycles were run
\* and exactly one synthesis pass.
C3_AtMostMaxCycles ==
    pc = "done" =>
        /\ scratchpad.cycle_count <= max_cycles
        /\ CountOf(passes, "synthesis") = 1

C5_CleanCritiqueAddsTenth ==
    [][pc = "critique" =>
        LET text == critique'.content
            before == scratchpad.confidence_model
            after == scratchpad'.confidence_model
            none(markers) == \A i \in 1..Len(markers) : FindAll(markers[i], text) = <<>>
        IN  /\ (none(FALLACY_MARKERS_ALWAYS) /\ none(FALLACY_MARKERS_FORWARD_ONLY))
                 => after.reasoning_quality = Min(One, before.reasoning_quality + Pct(10))
            /\ none(EVIDENCE_QUALITY_MARKERS)
                 => after.evidence_quality = Min(One, before.evidence_quality + Pct(10))]_vars

ItemsOf(s) == Range(SectionContent(s))
IndexIn(seq, x) == CHOOSE i \in 1..Len(seq) : seq[i] = x

\* C6: after every Scratchpad call no section holds two equal strings; a call
\* of add_claim with a claim string already in the claims section leaves the
\* sections unchanged; and any two items a call leaves in a section are in the
\* order they had before.
C6_NoDuplicates ==
    [][/\ \A s \in SectionTypes : NoDuplicates(scratchpad'.sections[s].content)
       /\ call'.op = "add_claim" /\ call'.arg \in ItemsOf("claims")
            => scratchpad'.sections = scratchpad.sections
       /\ \A s \in SectionTypes :
            LET old == scratchpad.sections[s].content
                new == scratchpad'.sections[s].content
            IN  \A a, b \in Range(old) \cap Range(new) :
                    IndexIn(old, a) < IndexIn(old, b) => IndexIn(new, a) < IndexIn(new, b)]_vars

\* extract_and_merge of a text whose items are all in their sections already
\* (one of them twice in the text, once padded with blanks) added nothing
C6_Witness ==
    /\ call.op = "extract_and_merge"
    /\ call.arg = Len(SmallText.toks)
    /\ call.ret = 0
    /\ 31 \in ItemsOf("insights")
    /\ ItemsOf("claims") # {}

\* C7: from_dict(to_dict(s)) = s for every scratchpad s a client can reach.
C7_RoundTrip == from_dict(to_dict(scratchpad)) = scratchpad

\* a scratchpad with key evidence, a branch, a current branch and recorded
\* fallacies has been through from_dict(to_dict(.))
C7_Witness ==
    /\ call.op = "from_dict"
    /\ scratchpad.key_evidence # <<>>
    /\ scratchpad.branches # <<>>
    /\ scratchpad.current_branch_id # None
    /\ scratchpad.confidence_model.fallacies_found # <<>>

LastCount == scratchpad.insight_counts[Len(scratchpad.insight_counts)]
PrevCount == scratchpad.insight_counts[Len(scratchpad.insight_counts) - 1]

\* C8: check_termination does not return diminishing_returns when fewer than
\* two counts are recorded, when insight_counts[-2] = 0, or when
\* insight_counts[-1] >= 0.5 * insight_counts[-2].
C8_NoDiminishingReturns ==
    (/\ pc = "term_output"
     /\ \/ Len(scratchpad.insight_counts) < 2
        \/ PrevCount = 0
        \/ 2 * LastCount >= PrevCount)
        => termination_reason # "diminishing_returns"

\* the last count is exactly half the one before, the earlier rules do not
\* match, and check_termination returned null
C8_Witness ==
    /\ pc = "term_output"
    /\ Len(scratchpad.insight_counts) >= 2
    /\ PrevCount > 0
    /\ 2 * LastCount = PrevCount
    /\ scratchpad.cycle_count >= 2
    /\ scratchpad.cycle_count < max_cycles
    /\ Len(scratchpad.confidence_history) < 2
    /\ termination_reason = None

\* C9: no step of a session decreases cycle_count.
C9_CycleCountMonotone == [][scratchpad'.cycle_count >= scratchpad.cycle_count]_vars

\* a session has finished after more than one main cycle
C9_Witness == pc = "done" /\ scratchpad.cycle_count >= 2 /\ CountOf(passes, "critique") >= 2

Rule1 == scratchpad.cycle_count >= max_cycles
Rule2 == scratchpad.cycle_count < 2
Rule3 ==
    LET h == scratchpad.confidence_history \o <<scratchpad.current_confidence>>
        n == Len(h)
    IN  /\ n >= 3
        /\ Abs(h[n - 1] - h[n - 2]) < Pct(5)
        /\ Abs(h[n] - h[n - 1]) < Pct(5)
Rule4 ==
    /\ Len(scratchpad.insight_counts) >= 2
    /\ PrevCount > 0
    /\ 2 * LastCount < PrevCount
Rule5 ==
    /\ scratchpad.current_confidence >= Pct(75)
    /\ Len(SectionContent("questions")) < 2

\* C10: check_termination returns the outcome of the first rule that matches,
\* in the order 1 (cycle limit), 2 (fewer than two cycles: null), 3
\* (saturation), 4 (diminishing returns), 5 (high confidence stable), and null
\* when none matches.
C10_FirstMatchWins ==
    pc = "term_output" =>
        /\ Rule1 => termination_reason \notin
                        {None, "confidence_saturated", "diminishing_returns",
                         "high_confidence_stable"}
        /\ ~Rule1 /\ Rule2 => termination_reason = None
        /\ ~Rule1 /\ ~Rule2 /\ Rule3 => termination_reason = "confidence_saturated"
        /\ ~Rule1 /\ ~Rule2 /\ ~Rule3 /\ Rule4 => termination_reason = "diminishing_returns"
        /\ ~Rule1 /\ ~Rule2 /\ ~Rule3 /\ ~Rule4 /\ Rule5
             => termination_reason = "high_confidence_stable"
        /\ ~Rule1 /\ ~Rule2 /\ ~Rule3 /\ ~Rule4 /\ ~Rule5 => termination_reason = None

\* rules 4 and 5 both match, rules 1 to 3 do not, and the reason is
\* diminishing_returns
C10_Witness ==
    /\ pc = "term_output"
    /\ ~Rule1 /\ ~Rule2 /\ ~Rule3 /\ Rule4 /\ Rule5
    /\ termination_reason = "diminishing_returns"

\* C11 as stated: when cycle_count >= max_cycles the detector's reason, and
\* the session's termination_reason, is the string "max_cycles_reached".
C11_ExactReason ==
    /\ (pc = "synthesis" /\ scratchpad.cycle_count >= max_cycles)
         => termination_reason = "max_cycles_reached"
    /\ (pc = "done" /\ scratchpad.cycle_count >= max_cycles)
         => result.termination_reason = "max_cycles_reached"

\* passes[i..j]
Slice(seq, i, j) == IF i > j THEN <<>> ELSE SubSeq(seq, i, j)

\* the index after the main cycle that starts at passes[i]: that of the next
\* expansion or synthesis pass, or one past the end of the log
CycleEnd(i) ==
    LET later == {j \in (i + 1)..Len(passes) : passes[j] \in {"expansion", "synthesis"}}
    IN  IF later = {} THEN Len(passes) + 1
        ELSE CHOOSE j \in later : \A k \in later : j <= k

\* C12: in the pass log every main cycle (from an expansion pass to the next
\* expansion or the synthesis) holds exactly one critique pass once the cycle
\* is over, and never more than one; a targeted expansion comes right after
\* the critique, at most once in a cycle, and the pass after it is a
\* compression.
C12_OneCritiquePerCycle ==
    \A i \in 1..Len(passes) :
        /\ passes[i] = "expansion" =>
             LET body == Slice(passes, i, CycleEnd(i) - 1)
             IN  /\ CountOf(body, "critique") <= 1
                 /\ CountOf(body, "targeted_expansion") <= 1
                 /\ CycleEnd(i) <= Len(passes) => CountOf(body, "critique") = 1
        /\ passes[i] = "targeted_expansion" =>
             /\ passes[i - 1] = "critique"
             /\ i < Len(passes) => passes[i + 1] = "compression"
             /\ i + 1 < Len(passes) => passes[i + 2] \notin {"critique", "targeted_expansion"}

\* a finished session whose first cycle had a targeted re-expansion and which
\* went on to a second cycle
C12_Witness ==
    /\ pc = "done"
    /\ Len(passes) > 8
    /\ passes[4] = "targeted_expansion"
    /\ passes[6] = "expansion"

CountTag(text, tag) == Len(SelectSeq(text.toks, LAMBDA t : upper(t.tag) = tag))
FlawScore(text) ==
    2 * CountTag(text, "TOO_GRANULAR") + 2 * CountTag(text, "TENSION_MISSING")
    + CountTag(text, "TENSION_WRONG") + CountTag(text, "REFRAME") + CountTag(text, "ELEVATE")

BranchItemExtracted == SectionContent("branches") # <<>> \/ scratchpad.branches # <<>>

\* C14 as stated: branching is triggered at the branch check if and only if
\* confidence < 0.4, cycle_count >= 2, fewer than MAX_BRANCHES branches are
\* active, and a [BRANCH] item was extracted during this session.
C14_TriggerAnyTimeExtracted ==
    [][pc = "record" =>
        (pc' = "branch_expansion"
            <=> /\ scratchpad.current_confidence < Pct(40)
                /\ scratchpad.cycle_count >= 2
                /\ ActiveCount < MAX_BRANCHES
                /\ BranchItemExtracted)]_vars

\* C14, amended: branching is triggered at the branch check if and only if
\* current_confidence < 0.4, cycle_count >= 2, fewer than MAX_BRANCHES
\* branches are active, and the branches section holds a proposal at that
\* moment (one extracted since the last branching, which empties the section).
C14_TriggerQueuedProposal ==
    [][pc = "record" =>
        (pc' = "branch_expansion"
            <=> /\ scratchpad.current_confidence < Pct(40)
                /\ scratchpad.cycle_count >= 2
                /\ ActiveCount < MAX_BRANCHES
                /\ SectionContent("branches") # <<>>)]_vars

\* a later cycle's branch check found low confidence and spare capacity but no
\* queued proposal, the earlier ones having been consumed: no branching
C14_Witness ==
    /\ pc = "term_check"
    /\ passes[Len(passes)] \in {"critique", "compression"}
    /\ scratchpad.branches # <<>>
    /\ SectionContent("branches") = <<>>
    /\ scratchpad.current_confidence < Pct(40)
    /\ ActiveCount < MAX_BRANCHES

ActiveConfidences ==
    {get_active_branches(scratchpad)[i].confidence : i \in 1..ActiveCount}
HighestActive == CHOOSE w \in ActiveConfidences : \A v \in ActiveConfidences : v <= w

SameCritique(n, text, conf) ==
    /\ scratchpad.cycle_count = n
    /\ critique.content = text
    /\ scratchpad.confidence_history = <<Pct(50)>> \o [i \in 1..(n - 1) |-> conf]
    /\ scratchpad.current_confidence = conf
    /\ scratchpad.branches = <<>>

\* the termination check of the current cycle has just been made
AfterTermCheck == pc \in {"cycle_start", "synthesis"} /\ scratchpad.cycle_count >= 1

\* scenario S1: the first critique, in retrospective mode
S1FirstCritique ==
    /\ analysis_mode = "retrospective"
    /\ pc = "record"
    /\ scratchpad.cycle_count = 1
    /\ critique.content = S1Critique

\* scenario S1: the clean second critique after that first one
S1SecondCritique ==
    /\ analysis_mode = "retrospective"
    /\ pc = "record"
    /\ scratchpad.cycle_count = 2
    /\ critique.content = Text(<<>>, Triple(90, 90, 75))
    /\ Len(scratchpad.confidence_model.fallacies_found) = 1
    /\ scratchpad.confidence_model.fallacies_found[1].marker = "CONFIRMATION"
    /\ Len(scratchpad.confidence_model.evidence_gaps) = 1
    /\ scratchpad.confidence_model.evidence_gaps[1].marker = "UNVERIFIED"

\* C16 as stated: in scenario S1 reasoning_quality is 0.6 after the first
\* critique and 0.7 after the second, and the composite then is 0.78 to within
\* 0.01.
C16_RecoveryPath ==
    /\ S1FirstCritique => scratchpad.confidence_model.reasoning_quality = Pct(60)
    /\ S1SecondCritique =>
         /\ scratchpad.confidence_model.reasoning_quality = Pct(70)
         /\ Abs(scratchpad.current_confidence - Pct(78)) <= Pct(1)

C18_DiminishingAtTwo ==
    (AfterTermCheck /\ scratchpad.cycle_count = 2 /\ scratchpad.insight_counts = <<10, 3>>)
        => pc = "synthesis" /\ termination_reason = "diminishing_returns"

\* C18, amended: when cycle 1 inserted 10 items and cycle 2 inserted 3,
\* max_cycles is above 2 and the confidence is not saturated, the session ends
\* after cycle 2 with diminishing_returns.
C18_DiminishingAtTwoOfMore ==
    (AfterTermCheck /\ scratchpad.cycle_count = 2 /\ scratchpad.insight_counts = <<10, 3>>
       /\ max_cycles > 2 /\ ~Rule3)
        => pc = "synthesis" /\ termination_reason = "diminishing_returns"

\* ten items, then three, and the session ended for diminishing returns
C18_Witness ==
    /\ pc = "synthesis"
    /\ scratchpad.cycle_count = 2
    /\ scratchpad.insight_counts = <<10, 3>>
    /\ max_cycles > 2
    /\ termination_reason = "diminishing_returns"

\* C19 as stated: when an oracle call is cancelled or fails for good, run()
\* ends with a result that holds the completed passes, the last composite
\* confidence, the trajectory, and a termination_reason naming the error.
C19_PartialResult ==
    call.op \in OracleErrors =>
        /\ pc = "done"
        /\ result.passes = passes
        /\ result.final_confidence = scratchpad.current_confidence
        /\ result.confidence_trajectory = trajectory(scratchpad)
        /\ result.termination_reason = call.op

\* C20: a pass whose oracle call is cancelled or raises leaves the scratchpad
\* as it was when the pass began.
C20_FailedPassKeepsScratchpad ==
    [][(pc \in OraclePcs /\ pc' = "raised") => scratchpad' = scratchpad]_vars

\* a cancelled branch pass, the scratchpad holding branches and items
C20_Witness ==
    /\ pc = "raised"
    /\ call.op = "CancelledError"
    /\ scratchpad.current_branch_id # None
    /\ SectionContent("insights") # <<>>

\* the failures the specification calls transport failures: network failure,
\* timeout, rate-limit response
TransportFailures == RetriedErrors \cup UncaughtErrors

\* C21 as stated: a call whose attempts fail with transport failures is
\* re-attempted, with a wait of 2^attempt * 2 seconds after failed attempt
\* number attempt, until an attempt succeeds or 3 attempts have failed: the
\* error is surfaced only after the third failure, and a success returns at
\* once.
C21_EveryTransportFailureRetried ==
    (call.op = "_call_claude" /\ call.retries = 3) =>
        /\ \A i \in 1..Len(call.slept) : call.slept[i] = (2 ^ (i - 1)) * 2
        /\ pc = "raised" =>
             /\ Len(call.errors) = 3
             /\ call.slept = <<2, 4>>
             /\ call.raised = call.errors[3]
        /\ pc = "returned" =>
             /\ Len(call.slept) = Len(call.errors)
             /\ call.raised = None

\* the critique declares no confidence at all
NoDeclaration(text) == ~three_part(text) /\ Search("CONFIDENCE", text) = NoMatch

\* C22 as stated: a critique pass whose output has neither the three-part
\* declaration nor a legacy CONFIDENCE line leaves conclusion_confidence and
\* confidence_history as they were, and sets reasoning_quality and
\* evidence_quality by the marker rule from the fallacy and evidence-quality
\* markers of that critique.
C22_ScoresFromMarkersWithoutDeclaration ==
    [][(pc = "critique" /\ NoDeclaration(critique'.content)) =>
        LET cm == scratchpad.confidence_model
            text == critique'.content
        IN  /\ scratchpad'.confidence_model.conclusion_confidence = cm.conclusion_confidence
            /\ scratchpad'.confidence_history = scratchpad.confidence_history
            /\ scratchpad'.confidence_model.reasoning_quality =
                 reasoning_update(cm.reasoning_quality,
                                  Len(cycle_fallacies(cm.analysis_mode, text)))
            /\ scratchpad'.confidence_model.evidence_quality =
                 evidence_update(cm.evidence_quality, Len(cycle_evidence_gaps(text)))]_vars

\* the budget table of the specification over T = TOTAL_BUDGET, as
\* (thesis, pattern, data, reasoning)
BudgetRow(route_type) ==
    CASE route_type = "FIT" -> <<3200, 0, 2400, 2400>>
      [] route_type = "ADJACENT" -> <<0, 2400, 3200, 2400>>
      [] route_type = "NET_NEW" -> <<800, 0, 2400, 4800>>

\* C23: the budget of every RouterResult is the table row of its route_type,
\* also when claim enhancement has changed the route type, and its four parts
\* sum to T.
C23_BudgetIsTableRow ==
    (call.op = "route_with_enhancement" /\ pc = "route_output") =>
        LET b == call.ret.budget
        IN  /\ call.ret.route_type \in {"FIT", "ADJACENT", "NET_NEW"}
            /\ <<b.thesis_tokens, b.pattern_tokens, b.data_tokens, b.reasoning_tokens>>
                 = BudgetRow(call.ret.route_type)
            /\ b.thesis_tokens + b.pattern_tokens + b.data_tokens + b.reasoning_tokens
                 = TOTAL_BUDGET

\* a routing that was NET_NEW and that the claims' entities upgraded
C23_Witness ==
    /\ pc = "route_output"
    /\ call.op = "route_with_enhancement"
    /\ route(call.memory, call.query, call.claims).route_type = "NET_NEW"
    /\ call.ret.route_type = "ADJACENT"
    /\ call.ret.budget.pattern_tokens = 2400

\* C24: with an empty library every routing returns NET_NEW with no matched
\* theses and no matched patterns, whatever the query and the claims.
C24_EmptyLibraryIsNetNew ==
    (/\ call.op = "route_with_enhancement"
     /\ pc = "route_output"
     /\ call.memory.theses = <<>>
     /\ call.memory.patterns = <<>>) =>
        /\ call.ret.route_type = "NET_NEW"
        /\ call.ret.matched_theses = <<>>
        /\ call.ret.matched_patterns = <<>>

\* an empty library, claims with a strategic keyword and an entity
C24_Witness ==
    /\ pc = "route_output"
    /\ call.op = "route_with_enhancement"
    /\ call.memory = [theses |-> <<>>, patterns |-> <<>>]
    /\ "growth" \in Range(claim_words(call.claims))
    /\ extract_entities(call.claims) # <<>>
    /\ call.ret.route_type = "NET_NEW"

\* C25 as stated: of all the oracle calls of a session only that of the
\* expansion pass of cycle 1 has the router's context in its prompt.
C25_RouterContextInFirstExpansionOnly ==
    call.op = "_call_claude" =>
        ("thesis_context" \in Range(call.arg.system)
            <=> call.arg.pass_type = "expansion" /\ call.arg.cycle = 1)

\* how many markers of a critique carry one of the tags
CountTags(text, tags) == Len(SelectSeq(text.toks, LAMBDA t : t.tag \in tags))

AlwaysFallacyTags ==
    {"FALSE_DICHOTOMY", "SUNK_COST", "CONFIRMATION", "PLANNING_FALLACY", "CIRCULAR", "AUTHORITY"}
ModeTags == {"HINDSIGHT", "SURVIVORSHIP"}
MisfitTags ==
    {"TOO_GRANULAR", "TOO_ABSTRACT", "TENSION_MISSING", "TENSION_WRONG", "MISAPPLIED"}

\* the marker rule of reasoning_quality for n fallacies in the pass
RuleScore(q, n) ==
    IF n = 0 THEN (IF q + Pct(10) > One THEN One ELSE q + Pct(10))
    ELSE IF n <= 2 THEN Pct(90) - n * Pct(15)
    ELSE IF Pct(90) - n * Pct(15) < Pct(30) THEN Pct(30) ELSE Pct(90) - n * Pct(15)

C27_MisfitMarkersBlockRecovery ==
    [][(/\ call'.op = "update_confidence_from_critique"
        /\ CountTags(call'.arg, MisfitTags) > 0
        /\ CountTags(call'.arg, AlwaysFallacyTags \cup ModeTags) = 0
        /\ scratchpad.confidence_model.reasoning_quality < One) =>
            scratchpad'.confidence_model.reasoning_quality
                < scratchpad.confidence_model.reasoning_quality + Pct(10)]_vars

\* C28: _compress is two-tier.  After it every section with preserved = false
\* holds its min(5, length) most recent items in their order; a section with
\* preserved = true is unchanged unless the token estimate once the first tier
\* is done still exceeds MAX_TOKENS, and then it holds its min(10, length) most
\* recent items in their order; key_evidence and the branch records are the
\* same in both cases.
Suffix(seq, n) ==
    LET k == IF Len(seq) < n THEN Len(seq) ELSE n
    IN  [i \in 1..k |-> seq[Len(seq) - k + i]]

C28_CompressIsTwoTier ==
    [][call'.op = "_compress" =>
        LET before == scratchpad.sections
            after == scratchpad'.sections
            \* the sections when the first loop is over
            tier1 == [s \in SectionTypes |->
                         IF before[s].preserved THEN before[s] ELSE after[s]]
            over == estimate_tokens(tier1) > MAX_TOKENS
        IN  /\ \A s \in SectionTypes :
                /\ after[s].preserved = before[s].preserved
                /\ ~before[s].preserved => after[s].content = Suffix(before[s].content, 5)
                /\ before[s].preserved /\ ~over => after[s].content = before[s].content
                /\ before[s].preserved /\ over => after[s].content = Suffix(before[s].content, 10)
            /\ scratchpad'.key_evidence = scratchpad.key_evidence
            /\ scratchpad'.branches = scratchpad.branches]_vars

\* both tiers have run: 6 long risks cut to 5, more than 10 insights cut to 10
\* and 11 decisions cut to 10, with the key evidence and a branch in place
C28_Witness ==
    /\ pc = "compress_output"
    /\ Len(SectionContent("risks")) = 5
    /\ SectionContent("risks")[1] > 21
    /\ Len(SectionContent("insights")) = 10
    /\ SectionContent("insights")[10] = 42
    /\ Len(SectionContent("decisions")) = 10
    /\ Len(scratchpad.key_evidence) = 2
    /\ Len(scratchpad.branches) = 1


\* C29: sessions running in parallel are independent.  Any two sessions have
\* distinct session ids, whatever their start times, and a handler that stores
\* its result never replaces the scratchpad or the result that another
\* session has stored.
C29_ParallelSessionsIndependent ==
    [][call'.op \in {"run", "store"} =>
        /\ \A r1, r2 \in Requests :
               r1 # r2 /\ call'.session_id[r1] # NoSession
                   => call'.session_id[r1] # call'.session_id[r2]
        /\ \A t \in Timestamps :
               /\ call.sessions[t] # 0 => call'.sessions[t] = call.sessions[t]
               /\ call.harness_results[t] # 0
                      => call'.harness_results[t] = call.harness_results[t]]_vars


BranchPcs == {"branch_expansion", "branch_compression", "branch_critique"}

\* the ids of the active branches in the order of their creation
ActiveIds(pad) ==
    LET active == SelectSeq(pad.branches, LAMBDA b : b.is_active)
    IN  [i \in 1..Len(active) |-> active[i].id]

\* the id that follows `id` in the sequence, None after the last
IdAfter(ids, id) ==
    IF \E i \in 1..(Len(ids) - 1) : ids[i] = id
    THEN ids[(CHOOSE i \in 1..(Len(ids) - 1) : ids[i] = id) + 1]
    ELSE None

C31_BranchSweepOrder ==
    [][/\ pc \notin BranchPcs => scratchpad.current_branch_id = None
       /\ pc' \notin BranchPcs => scratchpad'.current_branch_id = None
       /\ pc \notin BranchPcs /\ pc' \in BranchPcs =>
            /\ pc' = "branch_expansion"
            /\ ActiveIds(scratchpad') # <<>>
            /\ scratchpad'.current_branch_id = ActiveIds(scratchpad')[1]
       /\ pc = "branch_expansion" =>
            /\ pc' = "branch_compression"
            /\ passes' = Append(passes, "branch_expansion")
            /\ scratchpad'.current_branch_id = scratchpad.current_branch_id
       /\ pc = "branch_compression" =>
            /\ pc' = "branch_critique"
            /\ passes' = Append(passes, "compression")
            /\ scratchpad'.current_branch_id = scratchpad.current_branch_id
       /\ pc = "branch_critique" =>
            /\ passes' = Append(passes, "branch_critique")
            /\ ActiveIds(scratchpad') = ActiveIds(scratchpad)
            /\ scratchpad'.current_branch_id =
                   IdAfter(ActiveIds(scratchpad), scratchpad.current_branch_id)
            /\ pc' = IF scratchpad'.current_branch_id = None
                     THEN "term_check" ELSE "branch_expansion"]_vars

\* a sweep over three active branches is over: the last nine passes are the
\* three triples and current_branch_id is null again
C31_Witness ==
    /\ pc = "term_check"
    /\ ActiveCount = MAX_BRANCHES
    /\ Len(passes) >= 9
    /\ \A i \in 0..2 :
           /\ passes[Len(passes) - 8 + 3 * i] = "branch_expansion"
           /\ passes[Len(passes) - 7 + 3 * i] = "compression"
           /\ passes[Len(passes) - 6 + 3 * i] = "branch_critique"
    /\ scratchpad.current_branch_id = None


\* C32: critique scoring is cycle-local.  After a critique pass with k >= 1
\* fallacy markers reasoning_quality is max(0.5, 0.9 - 0.15k) for k <= 2 and
\* max(0.3, 0.9 - 0.15k) for k >= 3, whatever it was before and whatever
\* earlier cycles found; evidence_quality follows the same rule with the
\* number of evidence-quality markers.
EvidenceTags == Range(EVIDENCE_QUALITY_MARKERS)

C32_CycleLocalScoring ==
    [][passes' = Append(passes, "critique") =>
        LET text == critique'.content
            after == scratchpad'.confidence_model
            k == CountTags(text, AlwaysFallacyTags)
                 + (IF after.analysis_mode = "forward" THEN CountTags(text, ModeTags) ELSE 0)
            g == CountTags(text, EvidenceTags)
        IN  /\ k >= 1 => after.reasoning_quality = RuleScore(One, k)
            /\ g >= 1 => after.evidence_quality = RuleScore(One, g)]_vars


\* C33: extract_and_merge returns the number of items it appended in that
\* call: per semantic marker, the distinct stripped non-empty items of the
\* text that were not in the target section before.  An item already there,
\* an empty item and a repeated item add nothing, and the count is the one
\* before the compression the call may run.
NewItems(sections, text, marker) ==
    {strip(r) : r \in Range(FindAllI(marker, text))}
        \ ({0} \cup Range(sections[marker_to_section(marker)].content))

C33_ReturnsAppendedCount ==
    [][call'.op = "extract_and_merge" =>
        \E text \in ApiTexts :
            /\ Len(text.toks) = call'.arg
            /\ call'.ret =
                   SumSeq([k \in 1..Len(SEMANTIC_MARKERS) |->
                              Cardinality(NewItems(scratchpad.sections, text,
                                                   SEMANTIC_MARKERS[k]))])]_vars

\* the call appended 11 long insights and 6 long risks and returned 17; the
\* compression it then ran has left 10 and 5 of them
C33_Witness ==
    /\ call.op = "extract_and_merge"
    /\ call.arg = Len(LongText.toks)
    /\ call.ret = Len(LongText.toks)
    /\ Len(SectionContent("insights")) + Len(SectionContent("risks")) < call.ret


\* C34: confidence_history gets exactly one entry per confidence update
\* applied, that is per critique pass whose numeric declaration (three-part
\* or single CONFIDENCE) was parsed, appended at the end; the entry is the
\* confidence the update replaced.  Expansion, compression, targeted
\* expansion, branch passes and synthesis leave the list as it is.
DeclarationParsed(text) ==
    \/ \A name \in {"REASONING_QUALITY", "EVIDENCE_QUALITY", "CONCLUSION_CONFIDENCE"} :
           \E i \in 1..Len(text.decl) : text.decl[i].name = name
    \/ \E i \in 1..Len(text.decl) :
           text.decl[i].name \in {"CONFIDENCE", "CONCLUSION_CONFIDENCE"}

C34_OneHistoryEntryPerUpdate ==
    [][IF passes' = Append(passes, "critique") /\ DeclarationParsed(critique'.content)
       THEN scratchpad'.confidence_history =
                Append(scratchpad.confidence_history, scratchpad.current_confidence)
       ELSE scratchpad'.confidence_history = scratchpad.confidence_history]_vars

\* a completed session with three critiques, one of them without a
\* declaration, and a branch sweep: two entries
C34_Witness ==
    /\ pc = "done"
    /\ Len(SelectSeq(passes, LAMBDA t : t = "critique")) = 3
    /\ Len(SelectSeq(passes, LAMBDA t : t = "branch_critique")) >= 1
    /\ Len(scratchpad.confidence_history) = 2


\* C35: the pass log of a session is a sequence of main cycles, each starting
\* with expansion, compression, critique, then optionally targeted_expansion,
\* compression, then optionally a branch sweep (triples branch_expansion,
\* compression, branch_critique); a completed session's log ends with its only
\* synthesis pass, and a synthesis pass is run only once the termination check
\* has returned a reason.
PassBefore(log, back) == IF Len(log) > back THEN log[Len(log) - back] ELSE "none"

\* the pass types that may follow the log
MayFollow(log) ==
    LET last == PassBefore(log, 0)
        prev == PassBefore(log, 1)
        cycle_over == {"branch_expansion", "expansion", "synthesis"}
    IN  CASE last = "none" -> {"expansion"}
          [] last = "expansion" -> {"compression"}
          [] last = "compression" /\ prev = "expansion" -> {"critique"}
          [] last = "critique" -> {"targeted_expansion"} \cup cycle_over
          [] last = "targeted_expansion" -> {"compression"}
          [] last = "compression" /\ prev = "targeted_expansion" -> cycle_over
          [] last = "branch_expansion" -> {"compression"}
          [] last = "compression" /\ prev = "branch_expansion" -> {"branch_critique"}
          [] last = "branch_critique" -> cycle_over
          [] OTHER -> {}

C35_PassLogShape ==
    [][/\ passes' # passes =>
            \E t \in MayFollow(passes) :
                /\ passes' = Append(passes, t)
                /\ t = "synthesis" => termination_reason # None
       /\ pc' = "done" =>
            /\ PassBefore(passes', 0) = "synthesis"
            /\ Len(SelectSeq(passes', LAMBDA t : t = "synthesis")) = 1
            /\ result'.passes = passes']_vars

\* a completed session of two cycles: the first with a targeted re-expansion,
\* the second with a branch sweep
C35_Witness ==
    /\ pc = "done"
    /\ Len(SelectSeq(passes, LAMBDA t : t = "expansion")) = 2
    /\ passes[4] = "targeted_expansion"
    /\ passes[Len(passes) - 1] = "branch_critique"


\* C36: at every termination check insight_counts has one entry per cycle
\* (its length is cycle_count), and the entry of a cycle is the sum of the
\* items newly inserted by that cycle's main passes: expansion, compression,
\* critique and, if run, targeted expansion and re-compression.  Branch passes
\* add to no entry.
MainPassTexts ==
    ExpansionTexts \cup ScriptExpansionTexts \cup CompressionTexts \cup TargetedTexts

InsertedBy(sections, text) ==
    SumSeq([k \in 1..Len(SEMANTIC_MARKERS) |->
               Cardinality(NewItems(sections, text, SEMANTIC_MARKERS[k]))])

C36_InsightCountsPerCycle ==
    [][/\ pc = "term_check" => Len(scratchpad.insight_counts) = scratchpad.cycle_count
       /\ pc = "cycle_start" => cycle_insights' = 0
       /\ pc \in {"expansion", "compression", "re_expansion", "re_compression"} =>
            /\ scratchpad'.insight_counts = scratchpad.insight_counts
            /\ \E text \in MainPassTexts :
                   /\ scratchpad'.sections = extract_and_merge(scratchpad, text).pad.sections
                   /\ cycle_insights' = cycle_insights + InsertedBy(scratchpad.sections, text)
       /\ pc = "critique" =>
            /\ scratchpad'.insight_counts = scratchpad.insight_counts
            /\ cycle_insights' =
                   cycle_insights + InsertedBy(scratchpad.sections, critique'.content)
       /\ pc = "record" =>
            scratchpad'.insight_counts = Append(scratchpad.insight_counts, cycle_insights)
       /\ pc \in BranchPcs =>
            /\ scratchpad'.insight_counts = scratchpad.insight_counts
            /\ cycle_insights' = cycle_insights]_vars

\* the termination check of cycle 2 after a branch sweep: cycle 1 inserted
\* five items, the main passes of cycle 2 inserted only the two branch
\* proposals of the critique, a branch expansion inserted insight 36, and the
\* entries are 5 and 2
C36_Witness ==
    /\ pc = "term_check"
    /\ PassBefore(passes, 0) = "branch_critique"
    /\ "targeted_expansion" \notin Range(passes)
    /\ scratchpad.cycle_count = 2
    /\ scratchpad.insight_counts = <<5, 2>>
    /\ 36 \in ItemsOf("insights")


\* C37: reasoning_quality, evidence_quality, conclusion_confidence,
\* current_confidence and the confidence of every branch are in [0, 1] in
\* every state, whatever marker counts and numeric declarations the oracle
\* emits.
InUnit(x) == 0 <= x /\ x <= One

C37_ScoresInUnitInterval ==
    /\ InUnit(scratchpad.confidence_model.reasoning_quality)
    /\ InUnit(scratchpad.confidence_model.evidence_quality)
    /\ InUnit(scratchpad.confidence_model.conclusion_confidence)
    /\ InUnit(scratchpad.current_confidence)
    /\ \A i \in 1..Len(scratchpad.branches) : InUnit(scratchpad.branches[i].confidence)

\* after a critique with seven fallacy and seven evidence markers (both
\* scores at the floor 0.3), a branch critique has declared CONFIDENCE: 1.5
C37_Witness ==
    /\ call.op = "_run_branch_critique"
    /\ call.arg.decl[1].val > One
    /\ scratchpad.confidence_model.reasoning_quality = Pct(30)
    /\ scratchpad.confidence_model.evidence_quality = Pct(30)
    /\ Len(scratchpad.branches) = 1


\* C38: a session started with max_cycles >= 2 runs at least two main cycles
\* before synthesis: the termination check after cycle 1 returns no reason,
\* whatever the oracle wrote and whatever the confidence is.
C38_TwoCyclesBeforeSynthesis ==
    [][max_cycles >= 2 =>
        /\ pc = "term_check" /\ scratchpad.cycle_count = 1 =>
               termination_reason' = None /\ pc' = "cycle_start"
        /\ passes' = Append(passes, "synthesis") =>
               /\ Len(SelectSeq(passes, LAMBDA t : t = "expansion")) >= 2
               /\ scratchpad.cycle_count >= 2]_vars

\* a session with max_cycles = 3 whose first critique left a high confidence
\* and no open question went on to cycle 2 and ended there as
\* high_confidence_stable
C38_Witness ==
    /\ pc = "done"
    /\ max_cycles = 3
    /\ Len(SelectSeq(passes, LAMBDA t : t = "expansion")) = 2
    /\ passes[3] = "critique"
    /\ Len(scratchpad.confidence_history) >= 1
    /\ scratchpad.confidence_history[Len(scratchpad.confidence_history)] >= Pct(75)
    /\ result.termination_reason = "high_confidence_stable"


\* C39: branch passes run only in a main cycle whose branching trigger fired.
\* When the trigger does not fire at the branch check, the session goes on to
\* the termination check with no branch pass, and outside a sweep no branch
\* record changes, even when branches of an earlier cycle are active.
TriggerFires ==
    /\ scratchpad.current_confidence < BRANCH_CONFIDENCE_THRESHOLD
    /\ scratchpad.cycle_count >= 2
    /\ Len(SelectSeq(scratchpad.branches, LAMBDA b : b.is_active)) < MAX_BRANCHES
    /\ scratchpad.sections["branches"].content # <<>>

C39_BranchPassesOnlyWhenTriggered ==
    [][/\ pc = "record" /\ ~TriggerFires =>
            /\ pc' = "term_check"
            /\ scratchpad'.branches = scratchpad.branches
       /\ pc' \in BranchPcs /\ pc \notin BranchPcs => pc = "record" /\ TriggerFires
       /\ pc \notin BranchPcs =>
            /\ passes' # passes =>
                   PassBefore(passes', 0) \notin {"branch_expansion", "branch_critique"}
            /\ Len(scratchpad'.branches) >= Len(scratchpad.branches)
            /\ \A i \in 1..Len(scratchpad.branches) :
                   scratchpad'.branches[i] = scratchpad.branches[i]]_vars

\* the branch check of cycle 3 did not fire although a branch made in cycle 2
\* is active: the cycle has reached its termination check without a sweep
C39_Witness ==
    /\ pc = "term_check"
    /\ scratchpad.cycle_count = 3
    /\ ActiveCount >= 1
    /\ PassBefore(passes, 0) \in {"critique", "compression"}
    /\ PassBefore(passes, 1) # "branch_expansion"


\* C40: a scenario run of the agentic runner performs at most max_iterations
\* iterations, and once the loop has ended exactly one final pass is run: the
\* escape hatch when iteration >= max_iterations and confidence < 0.5, the
\* final synthesis otherwise.
C40_OneFinalPass ==
    /\ call.iteration <= call.max_iterations
    /\ pc = "agentic_done" =>
         /\ Len(call.final_passes) = 1
         /\ call.final_passes[1] =
                IF call.iteration >= call.max_iterations /\ call.confidence < Pct(50)
                THEN "escape_hatch" ELSE "synthesis"


====
